---- MODULE Spec2Model ----
(***************************************************************************)
(* The Drip SDK health-check CLI (src/python): configuration loading,      *)
(* check selection, the sequential check runner with its per-check         *)
(* timeout wrapper, the checks themselves, the reporter and the exit code. *)
(* Strings the program inspects character by character (check names, the   *)
(* --only argument, environment values) are sequences of one-character     *)
(* strings.                                                                *)
(***************************************************************************)
EXTENDS Integers, Sequences, FiniteSets, TLC

None == "None"

(***************************************************************************)
(* Character-level string functions (Python str methods used by the code). *)
(***************************************************************************)
UpperToLower ==
  [ A |-> "a", B |-> "b", C |-> "c", D |-> "d", E |-> "e", F |-> "f",
    G |-> "g", H |-> "h", I |-> "i", J |-> "j", K |-> "k", L |-> "l",
    M |-> "m", N |-> "n", O |-> "o", P |-> "p", Q |-> "q", R |-> "r",
    S |-> "s", T |-> "t", U |-> "u", V |-> "v", W |-> "w", X |-> "x",
    Y |-> "y", Z |-> "z" ]

Whitespace == {" ", "\t", "\n"}

\* str.lower()
Lower(s) ==
  [i \in 1..Len(s) |-> IF s[i] \in DOMAIN UpperToLower THEN UpperToLower[s[i]] ELSE s[i]]

\* str.lstrip() / str.rstrip() / str.strip() with no argument
RECURSIVE LStrip(_)
LStrip(s) ==
  IF s # <<>> /\ Head(s) \in Whitespace THEN LStrip(Tail(s)) ELSE s

RECURSIVE RStrip(_)
RStrip(s) ==
  IF s # <<>> /\ s[Len(s)] \in Whitespace THEN RStrip(SubSeq(s, 1, Len(s) - 1)) ELSE s

Strip(s) == RStrip(LStrip(s))

\* the Python test  t in s  on strings
Contains(s, t) ==
  \E i \in 0..(Len(s) - Len(t)) : SubSeq(s, i + 1, i + Len(t)) = t

\* str.split(sep) for a one-character separator
RECURSIVE SplitFrom(_, _, _, _)
SplitFrom(s, sep, cur, acc) ==
  IF s = <<>> THEN Append(acc, cur)
  ELSE IF Head(s) = sep THEN SplitFrom(Tail(s), sep, <<>>, Append(acc, cur))
  ELSE SplitFrom(Tail(s), sep, Append(cur, Head(s)), acc)

Split(s, sep) == SplitFrom(s, sep, <<>>, <<>>)

(***************************************************************************)
(* The check registry (src/python/checks/__init__.py).                     *)
(***************************************************************************)
\* the characters of each Check's name
Chars ==
  [ connectivity |-> <<"c","o","n","n","e","c","t","i","v","i","t","y">>,
    authentication |-> <<"a","u","t","h","e","n","t","i","c","a","t","i","o","n">>,
    customer_create |-> <<"c","u","s","t","o","m","e","r","_","c","r","e","a","t","e">>,
    customer_get |-> <<"c","u","s","t","o","m","e","r","_","g","e","t">>,
    customer_list |-> <<"c","u","s","t","o","m","e","r","_","l","i","s","t">>,
    charge_create |-> <<"c","h","a","r","g","e","_","c","r","e","a","t","e">>,
    charge_status |-> <<"c","h","a","r","g","e","_","s","t","a","t","u","s">>,
    charge_get |-> <<"c","h","a","r","g","e","_","g","e","t">>,
    charge_list_filtered |-> <<"c","h","a","r","g","e","_","l","i","s","t","_","f","i","l","t","e","r","e","d">>,
    track_usage |-> <<"t","r","a","c","k","_","u","s","a","g","e">>,
    balance_get |-> <<"b","a","l","a","n","c","e","_","g","e","t">>,
    stream_meter_add |-> <<"s","t","r","e","a","m","_","m","e","t","e","r","_","a","d","d">>,
    stream_meter_flush |-> <<"s","t","r","e","a","m","_","m","e","t","e","r","_","f","l","u","s","h">>,
    idempotency |-> <<"i","d","e","m","p","o","t","e","n","c","y">>,
    wrap_api_call_basic |-> <<"w","r","a","p","_","a","p","i","_","c","a","l","l","_","b","a","s","i","c">>,
    wrap_api_call_idempotency |-> <<"w","r","a","p","_","a","p","i","_","c","a","l","l","_","i","d","e","m","p","o","t","e","n","c","y">>,
    wrap_api_call_error |-> <<"w","r","a","p","_","a","p","i","_","c","a","l","l","_","e","r","r","o","r">>,
    checkout_create |-> <<"c","h","e","c","k","o","u","t","_","c","r","e","a","t","e">>,
    webhook_sign |-> <<"w","e","b","h","o","o","k","_","s","i","g","n">>,
    webhook_verify |-> <<"w","e","b","h","o","o","k","_","v","e","r","i","f","y">>,
    webhook_create |-> <<"w","e","b","h","o","o","k","_","c","r","e","a","t","e">>,
    webhook_list |-> <<"w","e","b","h","o","o","k","_","l","i","s","t">>,
    webhook_get |-> <<"w","e","b","h","o","o","k","_","g","e","t">>,
    webhook_test |-> <<"w","e","b","h","o","o","k","_","t","e","s","t">>,
    webhook_rotate_secret |-> <<"w","e","b","h","o","o","k","_","r","o","t","a","t","e","_","s","e","c","r","e","t">>,
    webhook_delete |-> <<"w","e","b","h","o","o","k","_","d","e","l","e","t","e">>,
    workflow_create |-> <<"w","o","r","k","f","l","o","w","_","c","r","e","a","t","e">>,
    workflow_list |-> <<"w","o","r","k","f","l","o","w","_","l","i","s","t">>,
    run_create |-> <<"r","u","n","_","c","r","e","a","t","e">>,
    run_timeline |-> <<"r","u","n","_","t","i","m","e","l","i","n","e">>,
    run_end |-> <<"r","u","n","_","e","n","d">>,
    emit_event |-> <<"e","m","i","t","_","e","v","e","n","t">>,
    emit_events_batch |-> <<"e","m","i","t","_","e","v","e","n","t","s","_","b","a","t","c","h">>,
    record_run |-> <<"r","e","c","o","r","d","_","r","u","n">>,
    meters_list |-> <<"m","e","t","e","r","s","_","l","i","s","t">>,
    estimate_from_usage |-> <<"e","s","t","i","m","a","t","e","_","f","r","o","m","_","u","s","a","g","e">>,
    estimate_hypothetical |-> <<"e","s","t","i","m","a","t","e","_","h","y","p","o","t","h","e","t","i","c","a","l">>,
    sdk_metrics |-> <<"s","d","k","_","m","e","t","r","i","c","s">>,
    resilience_health |-> <<"r","e","s","i","l","i","e","n","c","e","_","h","e","a","l","t","h">>,
    idempotency_key_gen |-> <<"i","d","e","m","p","o","t","e","n","c","y","_","k","e","y","_","g","e","n">>,
    stream_meter_create |-> <<"s","t","r","e","a","m","_","m","e","t","e","r","_","c","r","e","a","t","e">>,
    customer_cleanup |-> <<"c","u","s","t","o","m","e","r","_","c","l","e","a","n","u","p">> ]

\* all_checks: the 42 Check objects in registry order; run names the check function
all_checks ==
  << [name |-> "connectivity", quick |-> TRUE, run |-> "_connectivity_check"],
     [name |-> "authentication", quick |-> TRUE, run |-> "_authentication_check"],
     [name |-> "customer_create", quick |-> FALSE, run |-> "_customer_create_check"],
     [name |-> "customer_get", quick |-> FALSE, run |-> "_customer_get_check"],
     [name |-> "customer_list", quick |-> FALSE, run |-> "_customer_list_check"],
     [name |-> "charge_create", quick |-> FALSE, run |-> "_charge_create_check"],
     [name |-> "charge_status", quick |-> FALSE, run |-> "_charge_status_check"],
     [name |-> "charge_get", quick |-> FALSE, run |-> "_get_charge_check"],
     [name |-> "charge_list_filtered", quick |-> FALSE, run |-> "_list_charges_filtered_check"],
     [name |-> "track_usage", quick |-> FALSE, run |-> "_track_usage_check"],
     [name |-> "balance_get", quick |-> FALSE, run |-> "_balance_get_check"],
     [name |-> "stream_meter_add", quick |-> FALSE, run |-> "_stream_meter_add_check"],
     [name |-> "stream_meter_flush", quick |-> FALSE, run |-> "_stream_meter_flush_check"],
     [name |-> "idempotency", quick |-> FALSE, run |-> "_idempotency_check"],
     [name |-> "wrap_api_call_basic", quick |-> FALSE, run |-> "_wrap_api_call_basic_check"],
     [name |-> "wrap_api_call_idempotency", quick |-> FALSE, run |-> "_wrap_api_call_idempotency_check"],
     [name |-> "wrap_api_call_error", quick |-> FALSE, run |-> "_wrap_api_call_error_handling_check"],
     [name |-> "checkout_create", quick |-> FALSE, run |-> "_checkout_create_check"],
     [name |-> "webhook_sign", quick |-> TRUE, run |-> "_webhook_sign_check"],
     [name |-> "webhook_verify", quick |-> TRUE, run |-> "_webhook_verify_check"],
     [name |-> "webhook_create", quick |-> FALSE, run |-> "_webhook_create_check"],
     [name |-> "webhook_list", quick |-> FALSE, run |-> "_webhook_list_check"],
     [name |-> "webhook_get", quick |-> FALSE, run |-> "_webhook_get_check"],
     [name |-> "webhook_test", quick |-> FALSE, run |-> "_webhook_test_check"],
     [name |-> "webhook_rotate_secret", quick |-> FALSE, run |-> "_webhook_rotate_secret_check"],
     [name |-> "webhook_delete", quick |-> FALSE, run |-> "_webhook_delete_check"],
     [name |-> "workflow_create", quick |-> FALSE, run |-> "_workflow_create_check"],
     [name |-> "workflow_list", quick |-> FALSE, run |-> "_workflow_list_check"],
     [name |-> "run_create", quick |-> FALSE, run |-> "_run_create_check"],
     [name |-> "run_timeline", quick |-> FALSE, run |-> "_run_timeline_check"],
     [name |-> "run_end", quick |-> FALSE, run |-> "_run_end_check"],
     [name |-> "emit_event", quick |-> FALSE, run |-> "_emit_event_check"],
     [name |-> "emit_events_batch", quick |-> FALSE, run |-> "_emit_events_batch_check"],
     [name |-> "record_run", quick |-> FALSE, run |-> "_record_run_check"],
     [name |-> "meters_list", quick |-> FALSE, run |-> "_list_meters_check"],
     [name |-> "estimate_from_usage", quick |-> FALSE, run |-> "_estimate_from_usage_check"],
     [name |-> "estimate_hypothetical", quick |-> FALSE, run |-> "_estimate_from_hypothetical_check"],
     [name |-> "sdk_metrics", quick |-> FALSE, run |-> "_get_metrics_check"],
     [name |-> "resilience_health", quick |-> FALSE, run |-> "_get_health_check"],
     [name |-> "idempotency_key_gen", quick |-> TRUE, run |-> "_generate_idempotency_key_check"],
     [name |-> "stream_meter_create", quick |-> FALSE, run |-> "_create_stream_meter_check"],
     [name |-> "customer_cleanup", quick |-> FALSE, run |-> "_customer_cleanup_check"] >>

NumChecks == Len(all_checks)

quick_checks == SelectSeq(all_checks, LAMBDA c : c.quick)

InSeq(x, s) == \E i \in 1..Len(s) : s[i] = x

\* the inner loop of get_checks_by_name: for check in all_checks, append the
\* checks whose lower-cased name contains name_lower and that are not in
\* result yet (all_checks has no two equal entries, so the test against the
\* growing result is the test against the result the loop started with)
MatchAll(name_lower, result) ==
  result \o SelectSeq(all_checks,
                      LAMBDA check : /\ Contains(Lower(Chars[check.name]), name_lower)
                                     /\ ~InSeq(check, result))

\* the outer loop of get_checks_by_name: for name in names
RECURSIVE ByName(_, _, _)
ByName(names, j, result) ==
  IF j > Len(names) THEN result
  ELSE ByName(names, j + 1, MatchAll(Strip(Lower(names[j])), result))

\* get_checks_by_name without the "check not in result" test
MatchAllDup(name_lower, result) ==
  result \o SelectSeq(all_checks,
                      LAMBDA check : Contains(Lower(Chars[check.name]), name_lower))

RECURSIVE ByNameDup(_, _, _)
ByNameDup(names, j, result) ==
  IF j > Len(names) THEN result
  ELSE ByNameDup(names, j + 1, MatchAllDup(Strip(Lower(names[j])), result))

get_checks_by_name_dup(names) == ByNameDup(names, 1, <<>>)

get_checks_by_name(names) == ByName(names, 1, <<>>)

(***************************************************************************)
(* State.                                                                  *)
(***************************************************************************)
VARIABLES
  pc,          \* position of the CLI process in main() / run_checks()
  env,         \* os.environ after load_dotenv(): DRIP_API_KEY, TEST_CUSTOMER_ID, ...
  args,        \* the click options: only, quick, json_output, no_cleanup
  sdk,         \* how the external SDK client behaves in this run
  config,      \* the Config returned by load_config
  checks,      \* the list handed to run_checks
  created,     \* which of CheckContext / Reporter have been constructed
  ctx,         \* the CheckContext fields
  idx,         \* run_checks: index of the check the for loop is at
  in_progress, \* indices of checks whose run coroutine has started and not finished
  pending,     \* run_checks: the local  result  before it is appended
  results,     \* run_checks: the results list
  reporter,    \* Reporter.results (the JSON entries collected so far)
  output,      \* what the Reporter has printed to stdout
  stderr,      \* what main() has echoed to stderr
  sdk_calls,   \* SDK methods invoked so far, in order, with their main argument
  exit_code,   \* the code passed to sys.exit, None while running
  names,       \* argument of a direct get_checks_by_name call
  by_name,     \* its return value
  url_env,     \* DRIP_API_URL in os.environ
  api_url,     \* load_config: the normalized api_url
  clean_url,   \* create_client: the base_url handed to the SDK
  key_calls    \* direct calls of generate_idempotency_key: arguments and outcome

vars == << pc, env, args, sdk, config, checks, created, ctx, idx, in_progress,
           pending, results, reporter, output, stderr, sdk_calls, exit_code,
           names, by_name,
           url_env,
           api_url,
           clean_url,
           key_calls >>

(***************************************************************************)
(* The external SDK.  A profile names one client method and the way it     *)
(* deviates from a normal return on every call of the run, and the methods *)
(* the client lacks besides.                                               *)
(***************************************************************************)
Nominal == [method |-> None, fault |-> "ok", absent |-> {}]

\* behaviour of SDK method m: "ok", "missing" (no such attribute), "err404",
\* "err409", "err" (any other exception), "empty" (empty listing),
\* "slow" (returns after more than the timeout), "hang" (never returns),
\* "noreplay" (a repeated charge returns a new charge ID, is_replay false),
\* "replay_new_id" (a repeated charge returns a new charge ID, is_replay true)
\* "same_id" (a repeated call returns the same charge ID, no duplicate flag)
Beh(m) ==
  IF m \in sdk.absent THEN "missing"
  ELSE IF sdk.method = m THEN sdk.fault
  ELSE "ok"

hasattr(m) == Beh(m) # "missing"

\* what a call of m does: "return", or the kind of exception raised
Outcome(m) ==
  CASE Beh(m) = "missing" -> "AttributeError"
    [] Beh(m) = "err404"  -> "404"
    [] Beh(m) = "err409"  -> "409"
    [] Beh(m) = "err"     -> "error"
    [] OTHER              -> "return"

Call(m, arg) == [method |-> m, arg |-> arg]

\* the SDK call actually issued by client.m(arg): none when m does not exist
Trace(m, arg) == IF hasattr(m) THEN << Call(m, arg) >> ELSE << >>

\* wall-clock class of a check that issued these calls
TimeOf(calls) ==
  IF \E i \in 1..Len(calls) : Beh(calls[i].method) = "hang" THEN "hang"
  ELSE IF \E i \in 1..Len(calls) : Beh(calls[i].method) = "slow" THEN "slow"
  ELSE "fast"

(***************************************************************************)
(* src/python/types.py                                                     *)
(***************************************************************************)
\* a dataclass instance has no such attribute until something assigns it
Absent == "<no attribute>"

\* Python truthiness of an Optional[str]
Truthy(x) == x \notin {None, ""}

\* a or b
Or(a, b) == IF Truthy(a) THEN a ELSE b

CheckResult(name, success, duration, message) ==
  [name |-> name, success |-> success, duration |-> duration, message |-> message]

\* CheckContext(...) as main() constructs it; charge_id and workflow_id are
\* not dataclass fields
CheckContext(api_key, test_customer_id, skip_cleanup, timeout) ==
  [ api_key |-> api_key, test_customer_id |-> test_customer_id,
    created_customer_id |-> None, skip_cleanup |-> skip_cleanup,
    timeout |-> timeout, created_charge_id |-> None, stream_meter |-> None,
    webhook_id |-> None, webhook_secret |-> None, run_id |-> None,
    charge_id |-> Absent, workflow_id |-> Absent ]

NoContext == CheckContext(None, None, FALSE, 0)

(***************************************************************************)
(* What a check coroutine does when run to completion: either it returns a *)
(* CheckResult or an exception leaves it.                                  *)
(***************************************************************************)
NoResult == CheckResult(None, FALSE, 0, None)

Ret(name, success, message, c, calls) ==
  [raised |-> FALSE, exc |-> None, result |-> CheckResult(name, success, 0, message),
   ctx |-> c, calls |-> calls]

Raise(exc, c, calls) ==
  [raised |-> TRUE, exc |-> exc, result |-> NoResult, ctx |-> c, calls |-> calls]

\* '404' in error_str or '501' in error_str
NotImplementedCode(o) == o \in {"404", "501"}

(***************************************************************************)
(* src/python/checks/connectivity.py                                       *)
(***************************************************************************)
_connectivity_check(c) ==
  IF hasattr("ping")
    THEN IF Outcome("ping") = "return"
           THEN Ret("connectivity", TRUE, "API is reachable", c, Trace("ping", None))
           ELSE Ret("connectivity", FALSE, "Cannot reach API", c, Trace("ping", None))
    ELSE IF Outcome("list_customers") = "return"
           THEN Ret("connectivity", TRUE, "API is reachable", c, Trace("list_customers", "limit=1"))
           ELSE Ret("connectivity", FALSE, "Cannot reach API", c, Trace("list_customers", "limit=1"))

_authentication_check(c) ==
  IF Outcome("list_customers") = "return"
    THEN Ret("authentication", TRUE, "API key is valid", c, Trace("list_customers", "limit=1"))
    ELSE Ret("authentication", FALSE, "Authentication check failed", c,
             Trace("list_customers", "limit=1"))

(***************************************************************************)
(* src/python/checks/customer.py                                           *)
(***************************************************************************)
_customer_create_check(c) ==
  IF Truthy(c.test_customer_id)
    THEN Ret("customer_create", TRUE, "Using seeded customer", c, << >>)
  ELSE LET o == Outcome("create_customer")
           t == Trace("create_customer", "health_check")
       IN IF o = "return"
            THEN Ret("customer_create", TRUE, "Created customer",
                     [c EXCEPT !.created_customer_id = "cus_new"], t)
          ELSE IF o = "409"
            THEN Ret("customer_create", TRUE, "Customer already exists (using existing)", c, t)
          ELSE Ret("customer_create", FALSE, "Failed to create customer", c, t)

_customer_get_check(c) ==
  LET customer_id == Or(c.created_customer_id, c.test_customer_id) IN
  IF ~Truthy(customer_id)
    THEN Ret("customer_get", FALSE, "No customer ID available", c, << >>)
  ELSE IF Outcome("get_customer") = "return"
    THEN Ret("customer_get", TRUE, "Retrieved customer", c, Trace("get_customer", customer_id))
  ELSE Ret("customer_get", FALSE, "Failed to get customer", c,
           Trace("get_customer", customer_id))

_customer_list_check(c) ==
  IF Outcome("list_customers") = "return"
    THEN Ret("customer_list", TRUE, "Listed customers", c, Trace("list_customers", "limit=10"))
    ELSE Ret("customer_list", FALSE, "Failed to list customers", c, Trace("list_customers", "limit=10"))

\* a cleanup that deletes whichever customer the run used
_customer_cleanup_check_any_customer(c) ==
  LET customer_id == Or(c.created_customer_id, c.test_customer_id) IN
  IF c.skip_cleanup
    THEN Ret("customer_cleanup", TRUE, "Cleanup skipped (--no-cleanup flag)", c, << >>)
  ELSE IF ~Truthy(customer_id)
    THEN Ret("customer_cleanup", TRUE, "No customer to clean up", c, << >>)
  ELSE IF hasattr("delete_customer")
    THEN IF Outcome("delete_customer") = "return"
           THEN Ret("customer_cleanup", TRUE, "Deleted customer", c,
                    Trace("delete_customer", customer_id))
           ELSE Ret("customer_cleanup", FALSE, "Failed to cleanup customer", c,
                    Trace("delete_customer", customer_id))
  ELSE Ret("customer_cleanup", TRUE, "Customer marked for cleanup", c, << >>)

_customer_cleanup_check(c) ==
  IF c.skip_cleanup
    THEN Ret("customer_cleanup", TRUE, "Cleanup skipped (--no-cleanup flag)", c, << >>)
  ELSE IF ~Truthy(c.created_customer_id)
    THEN Ret("customer_cleanup", TRUE, "No customer to clean up", c, << >>)
  ELSE IF hasattr("delete_customer")
    THEN IF Outcome("delete_customer") = "return"
           THEN Ret("customer_cleanup", TRUE, "Deleted customer", c,
                    Trace("delete_customer", c.created_customer_id))
           ELSE Ret("customer_cleanup", FALSE, "Failed to cleanup customer", c,
                    Trace("delete_customer", c.created_customer_id))
  ELSE Ret("customer_cleanup", TRUE, "Customer marked for cleanup", c, << >>)

(***************************************************************************)
(* src/python/checks/charge.py                                             *)
(***************************************************************************)
_charge_create_check(c) ==
  LET customer_id == Or(c.created_customer_id, c.test_customer_id) IN
  IF ~Truthy(customer_id)
    THEN Ret("charge_create", FALSE, "No customer ID available", c, << >>)
  ELSE IF Outcome("charge") = "return"
    THEN Ret("charge_create", TRUE, "Created charge",
             [c EXCEPT !.created_charge_id = "ch_1"], Trace("charge", customer_id))
  ELSE Ret("charge_create", FALSE, "Failed to create charge", c, Trace("charge", customer_id))

_charge_status_check(c) ==
  IF ~Truthy(c.created_charge_id)
    THEN Ret("charge_status", FALSE, "No charge ID available", c, << >>)
  ELSE IF hasattr("get_charge_status")
    THEN IF Outcome("get_charge_status") = "return"
           THEN Ret("charge_status", TRUE, "Charge status", c,
                    Trace("get_charge_status", c.created_charge_id))
           ELSE Ret("charge_status", FALSE, "Failed to get charge status", c,
                    Trace("get_charge_status", c.created_charge_id))
  ELSE IF hasattr("get_charge")
    THEN IF Outcome("get_charge") = "return"
           THEN Ret("charge_status", TRUE, "Charge status", c,
                    Trace("get_charge", c.created_charge_id))
           ELSE Ret("charge_status", FALSE, "Failed to get charge status", c,
                    Trace("get_charge", c.created_charge_id))
  ELSE Ret("charge_status", TRUE, "Charge status check skipped", c, << >>)

\* line 123 reads ctx.charge_id before the try block
_get_charge_check(c) ==
  IF c.charge_id = Absent
    THEN Raise("AttributeError", c, << >>)
  ELSE LET charge_id == Or(c.charge_id, c.created_charge_id) IN
  IF ~Truthy(charge_id)
    THEN Ret("charge_get", FALSE, "No charge ID available", c, << >>)
  ELSE IF ~hasattr("get_charge")
    THEN Ret("charge_get", TRUE, "Skipped (get_charge not available)", c, << >>)
  ELSE LET o == Outcome("get_charge") IN
       IF o = "return"
         THEN Ret("charge_get", TRUE, "Charge", c, Trace("get_charge", charge_id))
       ELSE IF NotImplementedCode(o)
         THEN Ret("charge_get", TRUE, "Skipped (endpoint not implemented)", c,
                  Trace("get_charge", charge_id))
       ELSE Ret("charge_get", FALSE, "Failed to get charge", c,
                Trace("get_charge", charge_id))

_list_charges_filtered_check(c) ==
  LET customer_id == Or(c.created_customer_id, c.test_customer_id)
      t == Trace("list_charges", customer_id)
      o == Outcome("list_charges")
  IN
  IF ~Truthy(customer_id)
    THEN Ret("charge_list_filtered", FALSE, "No customer ID available", c, << >>)
  ELSE IF ~hasattr("list_charges")
    THEN Ret("charge_list_filtered", TRUE, "Skipped (list_charges not available)", c, << >>)
  ELSE IF o = "return"
    THEN IF Beh("list_charges") = "empty"
           THEN Ret("charge_list_filtered", TRUE, "Found charge(s) for customer", c, t)
         \* count > 0 and not ctx.charge_id : the read raises inside the try
         ELSE IF c.charge_id = Absent
           THEN Ret("charge_list_filtered", FALSE, "Failed to list charges", c, t)
         ELSE Ret("charge_list_filtered", TRUE, "Found charge(s) for customer",
                  IF Truthy(c.charge_id) THEN c ELSE [c EXCEPT !.charge_id = "ch_listed"], t)
  ELSE IF NotImplementedCode(o)
    THEN Ret("charge_list_filtered", TRUE, "Skipped (endpoint not implemented)", c, t)
  ELSE Ret("charge_list_filtered", FALSE, "Failed to list charges", c, t)

(***************************************************************************)
(* src/python/checks/usage.py, balance.py                                  *)
(***************************************************************************)
_track_usage_check(c) ==
  LET customer_id == Or(c.created_customer_id, c.test_customer_id) IN
  IF ~Truthy(customer_id)
    THEN Ret("track_usage", FALSE, "No customer ID available", c, << >>)
  ELSE IF ~hasattr("track_usage")
    THEN Ret("track_usage", TRUE, "Usage tracking not available in SDK", c, << >>)
  ELSE IF Outcome("track_usage") = "return"
    THEN Ret("track_usage", TRUE, "Usage tracked successfully", c,
             Trace("track_usage", customer_id))
  ELSE Ret("track_usage", FALSE, "Usage tracking failed", c, Trace("track_usage", customer_id))

_balance_get_check(c) ==
  LET customer_id == Or(c.created_customer_id, c.test_customer_id) IN
  IF ~Truthy(customer_id)
    THEN Ret("balance_get", FALSE, "No customer ID available", c, << >>)
  ELSE IF Outcome("get_balance") = "return"
    THEN Ret("balance_get", TRUE, "Balance", c, Trace("get_balance", customer_id))
  ELSE Ret("balance_get", FALSE, "Failed to get balance", c, Trace("get_balance", customer_id))

(***************************************************************************)
(* src/python/checks/streaming.py                                          *)
(***************************************************************************)
_stream_meter_add_check(c) ==
  LET customer_id == Or(c.created_customer_id, c.test_customer_id)
      create == Trace("create_stream_meter", customer_id)
      add == IF hasattr("StreamMeter.add_sync") THEN "StreamMeter.add_sync"
             ELSE IF hasattr("StreamMeter.add") THEN "StreamMeter.add"
             ELSE None
  IN
  IF ~Truthy(customer_id)
    THEN Ret("stream_meter_add", FALSE, "No customer ID available", c, << >>)
  ELSE IF ~hasattr("create_stream_meter")
    THEN Ret("stream_meter_add", TRUE, "StreamMeter not available in SDK", c, << >>)
  ELSE IF Outcome("create_stream_meter") # "return"
    THEN Ret("stream_meter_add", FALSE, "StreamMeter add failed", c, create)
  ELSE IF add = None
    THEN Ret("stream_meter_add", TRUE, "Accumulated units",
             [c EXCEPT !.stream_meter = "meter_1"], create)
  ELSE IF Outcome(add) = "return"
    THEN Ret("stream_meter_add", TRUE, "Accumulated units",
             [c EXCEPT !.stream_meter = "meter_1"],
             create \o << Call(add, "100"), Call(add, "200"), Call(add, "300") >>)
  ELSE Ret("stream_meter_add", FALSE, "StreamMeter add failed", c,
           create \o << Call(add, "100") >>)

_stream_meter_flush_check(c) ==
  IF ~Truthy(c.stream_meter)
    THEN Ret("stream_meter_flush", TRUE, "No stream meter available", c, << >>)
  ELSE IF Outcome("StreamMeter.flush") = "return"
    THEN Ret("stream_meter_flush", TRUE, "Flushed meter", c,
             Trace("StreamMeter.flush", c.stream_meter))
  ELSE Ret("stream_meter_flush", FALSE, "StreamMeter flush failed", c,
           Trace("StreamMeter.flush", c.stream_meter))

(***************************************************************************)
(* src/python/checks/idempotency.py                                        *)
(***************************************************************************)
\* what the n-th client.charge call made with one idempotency key returns:
\* the charge ID and is_replay (after the getattr default)
ChargeResponse(n) ==
  CASE Beh("charge") = "noreplay" ->
         [id |-> IF n = 1 THEN "ch_1" ELSE "ch_2", is_replay |-> FALSE]
    [] Beh("charge") = "replay_new_id" ->
         [id |-> IF n = 1 THEN "ch_1" ELSE "ch_2", is_replay |-> n > 1]
    [] OTHER -> [id |-> "ch_1", is_replay |-> n > 1]

_idempotency_check(c) ==
  LET customer_id == Or(c.created_customer_id, c.test_customer_id)
      result1 == ChargeResponse(1)
      result2 == ChargeResponse(2)
  IN
  IF ~Truthy(customer_id)
    THEN Ret("idempotency", FALSE, "No customer ID available", c, << >>)
  ELSE IF Outcome("charge") # "return"
    THEN Ret("idempotency", FALSE, "Idempotency check failed", c,
             Trace("charge", customer_id))
  ELSE IF result2.is_replay \/ result1.id = result2.id
    THEN Ret("idempotency", TRUE, "Idempotency working correctly", c,
             << Call("charge", customer_id), Call("charge", customer_id) >>)
  ELSE Ret("idempotency", FALSE, "Idempotency not working", c,
           << Call("charge", customer_id), Call("charge", customer_id) >>)

(***************************************************************************)
(* src/python/checks/wrap_api_call.py                                      *)
(***************************************************************************)
_wrap_api_call_basic_check(c) ==
  LET customer_id == Or(c.created_customer_id, c.test_customer_id) IN
  IF ~Truthy(customer_id)
    THEN Ret("wrap_api_call_basic", FALSE, "No customer ID available", c, << >>)
  ELSE IF ~hasattr("wrap_api_call")
    THEN Ret("wrap_api_call_basic", TRUE, "wrap_api_call not available in SDK", c, << >>)
  ELSE IF Outcome("wrap_api_call") = "return"
    THEN Ret("wrap_api_call_basic", TRUE, "wrap_api_call working", c,
             Trace("wrap_api_call", customer_id))
  ELSE Ret("wrap_api_call_basic", FALSE, "wrap_api_call failed", c,
           Trace("wrap_api_call", customer_id))

\* what the n-th client.wrap_api_call made with one idempotency key returns:
\* result.charge.charge.id and result.charge.is_duplicate
WrapResponse(n) ==
  CASE Beh("wrap_api_call") = "noreplay" ->
         [id |-> IF n = 1 THEN "ch_w1" ELSE "ch_w2", is_duplicate |-> FALSE]
    [] Beh("wrap_api_call") = "same_id" ->
         [id |-> "ch_w1", is_duplicate |-> FALSE]
    [] OTHER -> [id |-> "ch_w1", is_duplicate |-> n > 1]

_wrap_api_call_idempotency_check(c) ==
  LET customer_id == Or(c.created_customer_id, c.test_customer_id)
      result1 == WrapResponse(1)
      result2 == WrapResponse(2)
      calls == << Call("wrap_api_call", customer_id), Call("wrap_api_call", customer_id) >>
  IN
  IF ~Truthy(customer_id)
    THEN Ret("wrap_api_call_idempotency", FALSE, "No customer ID available", c, << >>)
  ELSE IF ~hasattr("wrap_api_call")
    THEN Ret("wrap_api_call_idempotency", TRUE, "wrap_api_call not available in SDK", c, << >>)
  ELSE IF Outcome("wrap_api_call") # "return"
    THEN Ret("wrap_api_call_idempotency", FALSE, "wrap_api_call idempotency check failed", c,
             Trace("wrap_api_call", customer_id))
  ELSE IF result2.is_duplicate
    THEN Ret("wrap_api_call_idempotency", TRUE, "Idempotency working in wrap_api_call", c,
             calls)
  ELSE IF result1.id = result2.id
    THEN Ret("wrap_api_call_idempotency", TRUE, "Idempotency working (same charge ID)", c,
             calls)
  ELSE Ret("wrap_api_call_idempotency", TRUE,
           "wrap_api_call completed (idempotency flag not detected)", c, calls)

\* the wrapped call raises ValueError("Simulated API failure"); a normal SDK
\* lets it propagate out of wrap_api_call
_wrap_api_call_error_handling_check(c) ==
  LET customer_id == Or(c.created_customer_id, c.test_customer_id) IN
  IF ~Truthy(customer_id)
    THEN Ret("wrap_api_call_error", FALSE, "No customer ID available", c, << >>)
  ELSE IF ~hasattr("wrap_api_call")
    THEN Ret("wrap_api_call_error", TRUE, "wrap_api_call not available in SDK", c, << >>)
  ELSE IF Outcome("wrap_api_call") = "return"
    THEN Ret("wrap_api_call_error", TRUE, "Error properly propagated from wrapped call", c,
             Trace("wrap_api_call", customer_id))
  ELSE Ret("wrap_api_call_error", FALSE, "Unexpected error", c,
           Trace("wrap_api_call", customer_id))

(***************************************************************************)
(* src/python/checks/checkout.py                                           *)
(***************************************************************************)
_checkout_create_check(c) ==
  LET customer_id == Or(c.created_customer_id, c.test_customer_id)
      checkout_method == IF hasattr("checkout") THEN "checkout" ELSE "create_checkout"
      o == Outcome(checkout_method)
      t == Trace(checkout_method, customer_id)
  IN
  IF ~Truthy(customer_id)
    THEN Ret("checkout_create", FALSE, "No customer ID available", c, << >>)
  ELSE IF ~hasattr("checkout") /\ ~hasattr("create_checkout")
    THEN Ret("checkout_create", TRUE, "Skipped (checkout not available)", c, << >>)
  ELSE IF o = "return"
    THEN Ret("checkout_create", TRUE, "Session", c, t)
  ELSE IF NotImplementedCode(o)
    THEN Ret("checkout_create", TRUE, "Skipped (endpoint not implemented)", c, t)
  ELSE Ret("checkout_create", FALSE, "Failed to create checkout", c, t)

(***************************************************************************)
(* src/python/checks/webhooks.py                                           *)
(***************************************************************************)
_webhook_sign_check(c) ==
  IF ~hasattr("create_webhook")
    THEN Ret("webhook_sign", TRUE, "Webhook creation not available in SDK", c, << >>)
  ELSE IF Outcome("create_webhook") = "return"
    THEN Ret("webhook_sign", TRUE, "Created webhook",
             [c EXCEPT !.webhook_id = "wh_1", !.webhook_secret = "whsec_1"],
             Trace("create_webhook", "example.com"))
  ELSE Ret("webhook_sign", FALSE, "Failed to create webhook", c,
           Trace("create_webhook", "example.com"))

\* the finally block: delete the webhook, swallowing every exception
WebhookVerifyCleanup(c) ==
  IF Truthy(c.webhook_id) THEN Trace("delete_webhook", c.webhook_id) ELSE << >>

\* verify_webhook_signature is imported from the SDK package; on ImportError
\* the check recomputes the HMAC it has just computed and compares the two
_webhook_verify_check(c) ==
  IF ~Truthy(c.webhook_secret)
    THEN Ret("webhook_verify", TRUE, "No webhook secret available", c, << >>)
  ELSE IF ~hasattr("verify_webhook_signature")
    THEN Ret("webhook_verify", TRUE, "Signature verification working", c,
             WebhookVerifyCleanup(c))
  ELSE IF Outcome("verify_webhook_signature") = "return"
    THEN Ret("webhook_verify", TRUE, "Signature verification working", c,
             Trace("verify_webhook_signature", c.webhook_secret) \o WebhookVerifyCleanup(c))
  ELSE Ret("webhook_verify", FALSE, "Webhook verify failed", c,
           Trace("verify_webhook_signature", c.webhook_secret) \o WebhookVerifyCleanup(c))

(***************************************************************************)
(* The shape shared by the checks below: skip when the client lacks the    *)
(* method, pass when the call returns, skip on a 404/501 error, fail on    *)
(* any other exception.                                                    *)
(***************************************************************************)
GuardedCall(name, c, m, arg, ok_message, fail_message, c_ok) ==
  LET o == Outcome(m) IN
  IF ~hasattr(m)
    THEN Ret(name, TRUE, "Skipped (method not available)", c, << >>)
  ELSE IF o = "return"
    THEN Ret(name, TRUE, ok_message, c_ok, Trace(m, arg))
  ELSE IF NotImplementedCode(o)
    THEN Ret(name, TRUE, "Skipped (endpoint not implemented)", c, Trace(m, arg))
  ELSE Ret(name, FALSE, fail_message, c, Trace(m, arg))

(***************************************************************************)
(* src/python/checks/webhooks_crud.py                                      *)
(***************************************************************************)
_webhook_create_check(c) ==
  GuardedCall("webhook_create", c, "create_webhook", "webhook.site",
              "Created webhook", "Failed to create webhook",
              [c EXCEPT !.webhook_id = "wh_2", !.webhook_secret = "whsec_2"])

_webhook_list_check(c) ==
  GuardedCall("webhook_list", c, "list_webhooks", None,
              "Found webhook(s)", "Failed to list webhooks", c)

_webhook_get_check(c) ==
  IF ~Truthy(c.webhook_id)
    THEN Ret("webhook_get", TRUE, "Skipped (no webhook ID)", c, << >>)
    ELSE GuardedCall("webhook_get", c, "get_webhook", c.webhook_id,
                     "Retrieved webhook", "Failed to get webhook", c)

_webhook_test_check(c) ==
  IF ~Truthy(c.webhook_id)
    THEN Ret("webhook_test", TRUE, "Skipped (no webhook ID)", c, << >>)
    ELSE GuardedCall("webhook_test", c, "test_webhook", c.webhook_id,
                     "Test event sent", "Failed to test webhook", c)

_webhook_rotate_secret_check(c) ==
  IF ~Truthy(c.webhook_id)
    THEN Ret("webhook_rotate_secret", TRUE, "Skipped (no webhook ID)", c, << >>)
    ELSE GuardedCall("webhook_rotate_secret", c, "rotate_webhook_secret", c.webhook_id,
                     "Secret rotated successfully", "Failed to rotate secret", c)

_webhook_delete_check(c) ==
  IF ~Truthy(c.webhook_id)
    THEN Ret("webhook_delete", TRUE, "Skipped (no webhook ID)", c, << >>)
    ELSE GuardedCall("webhook_delete", c, "delete_webhook", c.webhook_id,
                     "Deleted webhook", "Failed to delete webhook", c)

(***************************************************************************)
(* src/python/checks/workflows.py                                          *)
(***************************************************************************)
_workflow_create_check(c) ==
  GuardedCall("workflow_create", c, "create_workflow", "health-check",
              "Created workflow", "Failed to create workflow",
              [c EXCEPT !.workflow_id = "wf_1"])

_workflow_list_check(c) ==
  LET o == Outcome("list_workflows")
      t == Trace("list_workflows", None)
  IN
  IF ~hasattr("list_workflows")
    THEN Ret("workflow_list", TRUE, "Skipped (list_workflows not available)", c, << >>)
  ELSE IF o = "return"
    THEN IF Beh("list_workflows") = "empty"
           THEN Ret("workflow_list", TRUE, "Found workflow(s)", c, t)
         \* count > 0 and not ctx.workflow_id : the read raises inside the try
         ELSE IF c.workflow_id = Absent
           THEN Ret("workflow_list", FALSE, "Failed to list workflows", c, t)
         ELSE Ret("workflow_list", TRUE, "Found workflow(s)",
                  IF Truthy(c.workflow_id) THEN c ELSE [c EXCEPT !.workflow_id = "wf_listed"], t)
  ELSE IF NotImplementedCode(o)
    THEN Ret("workflow_list", TRUE, "Skipped (endpoint not implemented)", c, t)
  ELSE Ret("workflow_list", FALSE, "Failed to list workflows", c, t)

(***************************************************************************)
(* src/python/checks/runs.py                                               *)
(***************************************************************************)
\* the outer except of _run_create_check
RunCreateExcept(o, c, calls) ==
  IF o \in {"404", "422"}
    THEN Ret("run_create", TRUE, "Run endpoint not available", c, calls)
    ELSE Ret("run_create", FALSE, "Run creation failed", c, calls)

\* a fallback that stores ctx.run_id as soon as start_run has returned
RunCreateFallbackEarlyRunId(c, customer_id, before) ==
  IF ~hasattr("start_run")
    THEN Ret("run_create", TRUE, "Run methods available but could not execute", c, before)
  ELSE IF ~hasattr("create_workflow")
    THEN Ret("run_create", TRUE, "Run tracking requires workflow creation", c, before)
  ELSE
    LET workflow_id == IF Outcome("create_workflow") = "return" THEN "wf_run"
                       ELSE "health-check"
        started == [c EXCEPT !.run_id = "run_1"]
        t1 == before \o Trace("create_workflow", "health-check")
        t2 == t1 \o Trace("start_run", workflow_id)
        t3 == IF hasattr("emit_event") THEN t2 \o Trace("emit_event", "run_1") ELSE t2
        t4 == IF hasattr("end_run") THEN t3 \o Trace("end_run", "run_1") ELSE t3
    IN IF Outcome("start_run") # "return"
         THEN RunCreateExcept(Outcome("start_run"), c, t2)
       ELSE IF hasattr("emit_event") /\ Outcome("emit_event") # "return"
         THEN RunCreateExcept(Outcome("emit_event"), started, t3)
       ELSE IF hasattr("end_run") /\ Outcome("end_run") # "return"
         THEN RunCreateExcept(Outcome("end_run"), started, t4)
       ELSE Ret("run_create", TRUE, "Created and completed run", started, t4)

\* lines 69-128: create_workflow, start_run, emit_event, end_run
RunCreateFallback(c, customer_id, before) ==
  IF ~hasattr("start_run")
    THEN Ret("run_create", TRUE, "Run methods available but could not execute", c, before)
  ELSE IF ~hasattr("create_workflow")
    THEN Ret("run_create", TRUE, "Run tracking requires workflow creation", c, before)
  ELSE
    LET workflow_id == IF Outcome("create_workflow") = "return" THEN "wf_run"
                       ELSE "health-check"
        t1 == before \o Trace("create_workflow", "health-check")
        t2 == t1 \o Trace("start_run", workflow_id)
        t3 == IF hasattr("emit_event") THEN t2 \o Trace("emit_event", "run_1") ELSE t2
        t4 == IF hasattr("end_run") THEN t3 \o Trace("end_run", "run_1") ELSE t3
    IN IF Outcome("start_run") # "return"
         THEN RunCreateExcept(Outcome("start_run"), c, t2)
       ELSE IF hasattr("emit_event") /\ Outcome("emit_event") # "return"
         THEN RunCreateExcept(Outcome("emit_event"), c, t3)
       ELSE IF hasattr("end_run") /\ Outcome("end_run") # "return"
         THEN RunCreateExcept(Outcome("end_run"), c, t4)
       ELSE Ret("run_create", TRUE, "Created and completed run",
                [c EXCEPT !.run_id = "run_1"], t4)

_run_create_check(c) ==
  LET customer_id == Or(c.created_customer_id, c.test_customer_id)
      t == Trace("record_run", customer_id)
      o == Outcome("record_run")
  IN
  IF ~Truthy(customer_id)
    THEN Ret("run_create", FALSE, "No customer ID available", c, << >>)
  ELSE IF ~hasattr("start_run") /\ ~hasattr("record_run")
    THEN Ret("run_create", TRUE, "Run tracking not available in SDK", c, << >>)
  ELSE IF hasattr("record_run")
    THEN IF o = "return"
           THEN Ret("run_create", TRUE, "Created and completed run",
                    [c EXCEPT !.run_id = "run_rec"], t)
         ELSE IF o = "404"
           THEN RunCreateFallback(c, customer_id, t)
         ELSE RunCreateExcept(o, c, t)
  ELSE RunCreateFallback(c, customer_id, << >>)

_run_timeline_check(c) ==
  IF ~Truthy(c.run_id)
    THEN Ret("run_timeline", TRUE, "No run ID available", c, << >>)
  ELSE IF ~hasattr("get_run_timeline")
    THEN Ret("run_timeline", TRUE, "Run timeline not available in SDK", c, << >>)
  ELSE IF Outcome("get_run_timeline") = "return"
    THEN Ret("run_timeline", TRUE, "Retrieved timeline", c,
             Trace("get_run_timeline", c.run_id))
  ELSE Ret("run_timeline", FALSE, "Failed to get timeline", c,
           Trace("get_run_timeline", c.run_id))

_run_end_check(c) ==
  IF ~Truthy(c.run_id)
    THEN Ret("run_end", TRUE, "Skipped (no run ID)", c, << >>)
    ELSE GuardedCall("run_end", c, "end_run", c.run_id, "Ended run", "Failed to end run", c)

_emit_event_check(c) ==
  IF ~Truthy(c.run_id)
    THEN Ret("emit_event", TRUE, "Skipped (no run ID)", c, << >>)
    ELSE GuardedCall("emit_event", c, "emit_event", c.run_id,
                     "Event emitted successfully", "Failed to emit event", c)

_emit_events_batch_check(c) ==
  LET emit_method == IF hasattr("emit_events_batch") THEN "emit_events_batch"
                     ELSE "emit_events" IN
  IF ~Truthy(c.run_id)
    THEN Ret("emit_events_batch", TRUE, "Skipped (no run ID)", c, << >>)
    ELSE GuardedCall("emit_events_batch", c, emit_method, c.run_id,
                     "Batch emitted", "Failed to emit batch", c)

_record_run_check(c) ==
  LET customer_id == Or(c.created_customer_id, c.test_customer_id) IN
  IF ~Truthy(customer_id)
    THEN Ret("record_run", FALSE, "No customer ID available", c, << >>)
    ELSE GuardedCall("record_run", c, "record_run", customer_id,
                     "Recorded run", "Failed to record run", c)

(***************************************************************************)
(* src/python/checks/meters.py, estimates.py, resilience.py                *)
(***************************************************************************)
_list_meters_check(c) ==
  GuardedCall("meters_list", c, "list_meters", None,
              "Found meter(s)", "Failed to list meters", c)

_estimate_from_usage_check(c) ==
  LET customer_id == Or(c.created_customer_id, c.test_customer_id) IN
  IF ~Truthy(customer_id)
    THEN Ret("estimate_from_usage", FALSE, "No customer ID available", c, << >>)
    ELSE GuardedCall("estimate_from_usage", c, "estimate_from_usage", customer_id,
                     "Estimated", "Failed to estimate from usage", c)

_estimate_from_hypothetical_check(c) ==
  GuardedCall("estimate_hypothetical", c, "estimate_from_hypothetical", None,
              "Estimated", "Failed to estimate hypothetical", c)

_get_metrics_check(c) ==
  GuardedCall("sdk_metrics", c, "get_metrics", None,
              "Total requests", "Failed to get metrics", c)

_get_health_check(c) ==
  GuardedCall("resilience_health", c, "get_health", None,
              "Health status", "Failed to get health", c)

(***************************************************************************)
(* src/python/drip_client.py, src/python/checks/utilities.py               *)
(***************************************************************************)
\* generate_idempotency_key(prefix="health_check") accepts one argument
KeyGenParams == 1

\* the check calls generate_idempotency_key("test", "cust_123", 1)
KeyGenCallArgs == 3

DefaultKeyPrefix == << "h", "e", "a", "l", "t", "h", "_", "c", "h", "e", "c", "k" >>

HexDigits ==
  << "0", "1", "2", "3", "4", "5", "6", "7", "8", "9", "a", "b", "c", "d", "e", "f" >>

\* the number of hexadecimal digits of uuid.uuid4().hex
UuidHexLen == 32

\* the last n hexadecimal digits of u, zero-padded
RECURSIVE HexOf(_, _)
HexOf(u, n) ==
  IF n = 0 THEN << >> ELSE HexOf(u \div 16, n - 1) \o << HexDigits[(u % 16) + 1] >>

\* a generator that returns the uuid alone
generate_idempotency_key_no_prefix(call_args, uuid) ==
  IF Len(call_args) > KeyGenParams
    THEN [raised |-> TRUE, exc |-> "TypeError", key |-> None]
    ELSE [raised |-> FALSE, exc |-> None, key |-> HexOf(uuid, UuidHexLen)]

\* generate_idempotency_key(*call_args): TypeError when more positional
\* arguments are passed than the function declares, else
\* f"{prefix}_{uuid.uuid4().hex}" with uuid the value uuid4() draws
generate_idempotency_key(call_args, uuid) ==
  IF Len(call_args) > KeyGenParams
    THEN [raised |-> TRUE, exc |-> "TypeError", key |-> None]
    ELSE [raised |-> FALSE, exc |-> None,
          key |-> (IF call_args = << >> THEN DefaultKeyPrefix ELSE call_args[1])
                    \o << "_" >> \o HexOf(uuid, UuidHexLen)]

_generate_idempotency_key_check(c) ==
  IF KeyGenCallArgs > KeyGenParams
    \* TypeError, raised inside the try block
    THEN Ret("idempotency_key_gen", FALSE, "Failed to generate keys", c, << >>)
    \* uuid4-based keys: two calls return different keys
    ELSE Ret("idempotency_key_gen", FALSE, "Keys not deterministic", c, << >>)

_create_stream_meter_check(c) ==
  LET customer_id == Or(Or(c.created_customer_id, c.test_customer_id), "test_customer")
      m == IF hasattr("StreamMeter") THEN "StreamMeter" ELSE "create_stream_meter"
      o == Outcome(m)
  IN
  IF ~hasattr("StreamMeter") /\ ~hasattr("create_stream_meter")
    THEN Ret("stream_meter_create", TRUE, "Skipped (StreamMeter not available)", c, << >>)
  ELSE IF o = "return"
    THEN Ret("stream_meter_create", TRUE, "StreamMeter instance created",
             [c EXCEPT !.stream_meter = "meter_2"], Trace(m, customer_id))
  ELSE IF NotImplementedCode(o)
    THEN Ret("stream_meter_create", TRUE, "Skipped (endpoint not implemented)", c,
             Trace(m, customer_id))
  ELSE Ret("stream_meter_create", FALSE, "Failed to create stream meter", c,
           Trace(m, customer_id))

(***************************************************************************)
(* check.run(context): the coroutine behind each Check, run to completion. *)
(* None of the check functions contains an await.                          *)
(***************************************************************************)
Run(check, c) ==
  CASE check.run = "_connectivity_check" -> _connectivity_check(c)
    [] check.run = "_authentication_check" -> _authentication_check(c)
    [] check.run = "_customer_create_check" -> _customer_create_check(c)
    [] check.run = "_customer_get_check" -> _customer_get_check(c)
    [] check.run = "_customer_list_check" -> _customer_list_check(c)
    [] check.run = "_charge_create_check" -> _charge_create_check(c)
    [] check.run = "_charge_status_check" -> _charge_status_check(c)
    [] check.run = "_get_charge_check" -> _get_charge_check(c)
    [] check.run = "_list_charges_filtered_check" -> _list_charges_filtered_check(c)
    [] check.run = "_track_usage_check" -> _track_usage_check(c)
    [] check.run = "_balance_get_check" -> _balance_get_check(c)
    [] check.run = "_stream_meter_add_check" -> _stream_meter_add_check(c)
    [] check.run = "_stream_meter_flush_check" -> _stream_meter_flush_check(c)
    [] check.run = "_idempotency_check" -> _idempotency_check(c)
    [] check.run = "_wrap_api_call_basic_check" -> _wrap_api_call_basic_check(c)
    [] check.run = "_wrap_api_call_idempotency_check" -> _wrap_api_call_idempotency_check(c)
    [] check.run = "_wrap_api_call_error_handling_check" -> _wrap_api_call_error_handling_check(c)
    [] check.run = "_checkout_create_check" -> _checkout_create_check(c)
    [] check.run = "_webhook_sign_check" -> _webhook_sign_check(c)
    [] check.run = "_webhook_verify_check" -> _webhook_verify_check(c)
    [] check.run = "_webhook_create_check" -> _webhook_create_check(c)
    [] check.run = "_webhook_list_check" -> _webhook_list_check(c)
    [] check.run = "_webhook_get_check" -> _webhook_get_check(c)
    [] check.run = "_webhook_test_check" -> _webhook_test_check(c)
    [] check.run = "_webhook_rotate_secret_check" -> _webhook_rotate_secret_check(c)
    [] check.run = "_webhook_delete_check" -> _webhook_delete_check(c)
    [] check.run = "_workflow_create_check" -> _workflow_create_check(c)
    [] check.run = "_workflow_list_check" -> _workflow_list_check(c)
    [] check.run = "_run_create_check" -> _run_create_check(c)
    [] check.run = "_run_timeline_check" -> _run_timeline_check(c)
    [] check.run = "_run_end_check" -> _run_end_check(c)
    [] check.run = "_emit_event_check" -> _emit_event_check(c)
    [] check.run = "_emit_events_batch_check" -> _emit_events_batch_check(c)
    [] check.run = "_record_run_check" -> _record_run_check(c)
    [] check.run = "_list_meters_check" -> _list_meters_check(c)
    [] check.run = "_estimate_from_usage_check" -> _estimate_from_usage_check(c)
    [] check.run = "_estimate_from_hypothetical_check" -> _estimate_from_hypothetical_check(c)
    [] check.run = "_get_metrics_check" -> _get_metrics_check(c)
    [] check.run = "_get_health_check" -> _get_health_check(c)
    [] check.run = "_generate_idempotency_key_check" -> _generate_idempotency_key_check(c)
    [] check.run = "_create_stream_meter_check" -> _create_stream_meter_check(c)
    [] check.run = "_customer_cleanup_check" -> _customer_cleanup_check(c)

(***************************************************************************)
(* src/python/config.py                                                    *)
(***************************************************************************)
Digits == << "0", "1", "2", "3", "4", "5", "6", "7", "8", "9" >>

IsDigit(ch) == \E i \in 1..10 : Digits[i] = ch

DigitVal(ch) == (CHOOSE i \in 1..10 : Digits[i] = ch) - 1

RECURSIVE DigitsValue(_, _)
DigitsValue(s, acc) ==
  IF s = << >> THEN acc ELSE DigitsValue(Tail(s), 10 * acc + DigitVal(Head(s)))

\* int(text): surrounding whitespace and a sign are accepted, anything else
\* that is not a digit raises ValueError
IntParse(text) ==
  LET s == Strip(text)
      signed == s # << >> /\ Head(s) \in {"-", "+"}
      body == IF signed THEN Tail(s) ELSE s
      ok == body # << >> /\ \A i \in 1..Len(body) : IsDigit(body[i])
  IN [ok |-> ok,
      value |-> IF ~ok THEN 0
                ELSE IF signed /\ Head(s) = "-" THEN 0 - DigitsValue(body, 0)
                ELSE DigitsValue(body, 0)]

\* an environment variable: unset, or set to a value
Unset(empty) == [set |-> FALSE, value |-> empty]
Val(v) == [set |-> TRUE, value |-> v]

\* os.getenv(name, default)
Getenv(var, default) == IF var.set THEN var.value ELSE default

DefaultTimeoutText == << "3", "0", "0", "0", "0" >>

SkipCleanupWords ==
  { << "t", "r", "u", "e" >>, << "1" >>, << "y", "e", "s" >> }

\* load_config testing  api_key is None  instead of  not api_key
load_config_unset_only(e) ==
  LET timeout == IntParse(Getenv(e.CHECK_TIMEOUT, DefaultTimeoutText))
  IN IF ~e.DRIP_API_KEY.set \/ ~timeout.ok
       THEN [ok |-> FALSE, api_key |-> None, test_customer_id |-> None,
             skip_cleanup |-> FALSE, timeout |-> 0]
       ELSE [ok |-> TRUE, api_key |-> e.DRIP_API_KEY.value,
             test_customer_id |-> Getenv(e.TEST_CUSTOMER_ID, None),
             skip_cleanup |-> Lower(Getenv(e.SKIP_CLEANUP, << >>)) \in SkipCleanupWords,
             timeout |-> timeout.value]

\* load_config: ok = FALSE stands for the ValueError it raises
load_config(e) ==
  LET api_key == Getenv(e.DRIP_API_KEY, None)
      timeout == IntParse(Getenv(e.CHECK_TIMEOUT, DefaultTimeoutText))
  IN IF ~Truthy(api_key) \/ ~timeout.ok
       THEN [ok |-> FALSE, api_key |-> None, test_customer_id |-> None,
             skip_cleanup |-> FALSE, timeout |-> 0]
       ELSE [ok |-> TRUE, api_key |-> api_key,
             test_customer_id |-> Getenv(e.TEST_CUSTOMER_ID, None),
             skip_cleanup |-> Lower(Getenv(e.SKIP_CLEANUP, << >>)) \in SkipCleanupWords,
             timeout |-> timeout.value]

NoConfig == [ok |-> FALSE, api_key |-> None, test_customer_id |-> None,
             skip_cleanup |-> FALSE, timeout |-> 0]

\* s.endswith(suffix)
EndsWith(s, suffix) ==
  /\ Len(s) >= Len(suffix)
  /\ SubSeq(s, Len(s) - Len(suffix) + 1, Len(s)) = suffix

\* s.rstrip("/")
RECURSIVE RStripSlash(_)
RStripSlash(s) ==
  IF s # << >> /\ s[Len(s)] = "/" THEN RStripSlash(SubSeq(s, 1, Len(s) - 1)) ELSE s

V1 == << "/", "v", "1" >>

DefaultApiUrl ==
  << "h","t","t","p","s",":","/","/","a","p","i",".","d","r","i","p",".","r","e" >>

\* load_config: api_url = os.getenv("DRIP_API_URL", ...), then the /v1
\* normalization
ApiUrl(var) ==
  LET url == Getenv(var, DefaultApiUrl)
  IN IF ~EndsWith(url, V1) THEN RStripSlash(url) \o V1 ELSE url

\* create_client: clean_url, the base_url with one /v1 suffix removed
CleanUrl(base_url) ==
  LET clean == RStripSlash(base_url)
  IN IF EndsWith(clean, V1) THEN SubSeq(clean, 1, Len(clean) - 3) ELSE clean

(***************************************************************************)
(* src/python/reporter.py                                                  *)
(***************************************************************************)
\* Reporter.start
ReporterStart(json_output) ==
  IF json_output THEN << >> ELSE << [kind |-> "banner"] >>

\* Reporter.on_check_start
OnCheckStartOutput(json_output, check) ==
  IF json_output THEN << >> ELSE << [kind |-> "start", name |-> check.name] >>

\* Reporter.on_check_complete: what it prints ...
OnCheckCompleteOutput(json_output, result) ==
  IF json_output THEN << >>
  ELSE << [kind |-> "line", success |-> result.success, message |-> result.message] >>

\* an on_check_complete that collects the failed results only
OnCheckCompleteEntriesFailuresOnly(json_output, result) ==
  IF json_output /\ ~result.success THEN << result >> ELSE << >>

\* ... and what it adds to self.results
OnCheckCompleteEntries(json_output, result) ==
  IF json_output THEN << result >> ELSE << >>

CountPassed(rs) == Cardinality({i \in 1..Len(rs) : rs[i].success})

\* Reporter.finish
FinishOutput(json_output, entries, rs) ==
  LET passed == CountPassed(rs)
      total == Len(rs)
      failed == Len(rs) - passed
      summary == [total |-> total, passed |-> passed, failed |-> failed]
  IN IF json_output
       THEN << [kind |-> "json", results |-> entries, summary |-> summary] >>
       ELSE << [kind |-> "summary", summary |-> summary] >>

(***************************************************************************)
(* src/python/runner.py                                                    *)
(***************************************************************************)
\* (time.perf_counter() - start_time) * 1000 for a check of the given
\* wall-clock class
Elapsed(time, timeout_ms) == IF time = "slow" THEN timeout_ms + 1 ELSE 1

\* the except asyncio.TimeoutError branch of run_check_with_timeout
TimeoutResult(check, timeout_ms) ==
  CheckResult(check.name, FALSE, timeout_ms, "Check timed out")

\* a fallback result that loses the name of the check
ExceptionResultUnnamed(check, elapsed) ==
  CheckResult(None, FALSE, elapsed, "Check failed with exception")

\* the except Exception branch of run_checks
ExceptionResult(check, elapsed) ==
  CheckResult(check.name, FALSE, elapsed, "Check failed with exception")

\* if result.duration == 0: result.duration = elapsed
WithDuration(result, elapsed) ==
  IF result.duration = 0 THEN [result EXCEPT !.duration = elapsed] ELSE result

\* asyncio.wait_for(coro, timeout) with timeout <= 0 cancels the coroutine
\* before its first step and raises TimeoutError
TimesOutBeforeStart(timeout_ms) == timeout_ms <= 0

\* a loop that schedules the coroutine and does not await it
AwaitedNoWait(i) == TRUE

\* result = await run_check_with_timeout(...): the loop resumes only when the
\* coroutine of check i is no longer running
Awaited(i) == i \notin in_progress

(***************************************************************************)
(* src/python/cli.py                                                       *)
(***************************************************************************)
\* a selection that falls back to every check when no name matches
SelectChecksAllWhenNone(a) ==
  IF a.quick THEN quick_checks
  ELSE IF a.only.set /\ a.only.value # << >>
    THEN IF get_checks_by_name(Split(a.only.value, ",")) = << >> THEN all_checks
         ELSE get_checks_by_name(Split(a.only.value, ","))
  ELSE all_checks

\* a selection that tests --only before --quick
SelectChecksOnlyFirst(a) ==
  IF a.only.set /\ a.only.value # << >>
    THEN get_checks_by_name(Split(a.only.value, ","))
  ELSE IF a.quick THEN quick_checks
  ELSE all_checks

\* the if / elif / else that determines which checks to run
SelectChecks(a) ==
  IF a.quick THEN quick_checks
  ELSE IF a.only.set /\ a.only.value # << >>
    THEN get_checks_by_name(Split(a.only.value, ","))
  ELSE all_checks

\* an exit code that tolerates a single failure
ExitCodeMoreThanOne(rs) ==
  LET failures == Cardinality({i \in 1..Len(rs) : ~rs[i].success})
  IN IF failures > 1 THEN 1 ELSE 0

\* sys.exit(1 if failures > 0 else 0)
ExitCode(rs) ==
  LET failures == Cardinality({i \in 1..Len(rs) : ~rs[i].success})
  IN IF failures > 0 THEN 1 ELSE 0

(***************************************************************************)
(* Invocations explored: environment and command line.                     *)
(***************************************************************************)
Env(key, customer, skip, timeout) ==
  [DRIP_API_KEY |-> key, TEST_CUSTOMER_ID |-> customer,
   SKIP_CLEANUP |-> skip, CHECK_TIMEOUT |-> timeout]

Args(only, quick, json_output, no_cleanup) ==
  [only |-> only, quick |-> quick, json_output |-> json_output, no_cleanup |-> no_cleanup]

Key == Val("sk_test")
NoStr == Unset("")
NoText == Unset(<< >>)
Seeded == Val("cus_seed")

DefaultEnv == Env(Key, NoStr, NoText, NoText)
SeededEnv == Env(Key, Seeded, NoText, NoText)
NoOnly == Unset(<< >>)

OnlyCharge == Val(<< "c","h","a","r","g","e" >>)
OnlyCleanupCreate ==
  Val(<< "c","l","e","a","n","u","p",",","c","u","s","t","o","m","e","r","_","c","r","e","a","t","e" >>)
OnlyCustomer == Val(<< "C","u","s","t","o","m","e","r" >>)
OnlyGetSpaced == Val(<< " ","_","G","E","T"," ",",","r","u","n","_","e","n","d" >>)
OnlyList == Val(<< "_","l","i","s","t" >>)
OnlyNoMatch == Val(<< "n","o","p","e" >>)
OnlyEmpty == Val(<< >>)

Invocations ==
  { \* full runs
    [env |-> DefaultEnv, args |-> Args(NoOnly, FALSE, FALSE, FALSE)],
    [env |-> SeededEnv, args |-> Args(NoOnly, FALSE, FALSE, FALSE)],
    [env |-> SeededEnv, args |-> Args(NoOnly, FALSE, TRUE, TRUE)],
    [env |-> Env(Key, NoStr, Val(<< "Y","e","s" >>), NoText),
     args |-> Args(NoOnly, FALSE, FALSE, FALSE)],
    [env |-> Env(Key, Seeded, NoText, Val(<< "-","1" >>)),
     args |-> Args(OnlyEmpty, FALSE, TRUE, FALSE)],
    \* --quick, with and without --only
    [env |-> DefaultEnv, args |-> Args(NoOnly, TRUE, FALSE, FALSE)],
    [env |-> DefaultEnv, args |-> Args(OnlyCharge, TRUE, TRUE, FALSE)],
    [env |-> Env(Key, NoStr, NoText, Val(<< "0" >>)),
     args |-> Args(NoOnly, TRUE, FALSE, FALSE)],
    \* --only
    [env |-> SeededEnv, args |-> Args(OnlyCharge, FALSE, FALSE, FALSE)],
    [env |-> DefaultEnv, args |-> Args(OnlyCleanupCreate, FALSE, FALSE, FALSE)],
    [env |-> DefaultEnv, args |-> Args(OnlyCustomer, FALSE, TRUE, FALSE)],
    [env |-> SeededEnv, args |-> Args(OnlyGetSpaced, FALSE, FALSE, TRUE)],
    [env |-> SeededEnv, args |-> Args(OnlyList, FALSE, FALSE, FALSE)],
    [env |-> DefaultEnv, args |-> Args(OnlyNoMatch, FALSE, FALSE, FALSE)],
    \* configuration errors
    [env |-> Env(NoStr, Seeded, NoText, NoText), args |-> Args(NoOnly, FALSE, FALSE, FALSE)],
    [env |-> Env(Val(""), NoStr, NoText, NoText), args |-> Args(OnlyCharge, TRUE, TRUE, FALSE)],
    [env |-> Env(Key, NoStr, NoText, Val(<< "a","b","c" >>)),
     args |-> Args(NoOnly, FALSE, FALSE, FALSE)] }

(***************************************************************************)
(* SDK behaviours explored.                                                *)
(***************************************************************************)
SdkMethods ==
  { "ping", "list_customers", "create_customer", "get_customer", "delete_customer",
    "charge", "get_charge_status", "get_charge", "list_charges", "track_usage",
    "get_balance", "create_stream_meter", "StreamMeter", "StreamMeter.add_sync",
    "StreamMeter.add", "StreamMeter.flush", "wrap_api_call", "checkout",
    "create_checkout", "create_webhook", "delete_webhook", "verify_webhook_signature",
    "list_webhooks", "get_webhook", "test_webhook", "rotate_webhook_secret",
    "create_workflow", "list_workflows", "record_run", "start_run", "emit_event",
    "end_run", "get_run_timeline", "emit_events_batch", "emit_events", "list_meters",
    "estimate_from_usage", "estimate_from_hypothetical", "get_metrics", "get_health" }

SdkProfiles ==
  { Nominal }
    \cup [method : SdkMethods, fault : {"missing", "err404", "err"}, absent : {{}}]
    \cup [method : {"list_customers", "charge", "get_health"}, fault : {"slow", "hang"},
          absent : {{}}]
    \cup [method : {"list_charges", "list_workflows"}, fault : {"empty"}, absent : {{}}]
    \cup [method : {"create_customer"}, fault : {"err409"}, absent : {{}}]
    \cup [method : {"charge"}, fault : {"noreplay", "replay_new_id"}, absent : {{}}]
    \cup [method : {"wrap_api_call"}, fault : {"noreplay", "same_id"}, absent : {{}}]
    \* an SDK without record_run, in which run_create takes its start_run path
    \cup [method : {"create_workflow", "start_run", "emit_event", "end_run"},
          fault : {"missing", "err"}, absent : {{"record_run"}}]

(***************************************************************************)
(* The CLI process: main() in cli.py, run_checks() in runner.py.           *)
(***************************************************************************)
Init ==
  /\ pc = "main"
  /\ \E inv \in Invocations : env = inv.env /\ args = inv.args
  /\ sdk \in SdkProfiles
  /\ config = NoConfig
  /\ checks = << >>
  /\ created = {}
  /\ ctx = NoContext
  /\ idx = 0
  /\ in_progress = {}
  /\ pending = NoResult
  /\ results = << >>
  /\ reporter = << >>
  /\ output = << >>
  /\ stderr = << >>
  /\ sdk_calls = << >>
  /\ exit_code = None
  /\ names = << >>
  /\ by_name = << >>
  /\ url_env = Unset(<< >>)
  /\ api_url = << >>
  /\ clean_url = << >>
  /\ key_calls = << >>

\* config = load_config(environment) succeeds
LoadConfig ==
  /\ pc = "main"
  /\ load_config(env).ok
  /\ config' = load_config(env)
  /\ pc' = "select"
  /\ UNCHANGED << env, args, sdk, checks, created, ctx, idx, in_progress, pending,
                  results, reporter, output, stderr, sdk_calls, exit_code, names, by_name, url_env, api_url, clean_url, key_calls >>

\* load_config raises ValueError: echo to stderr, sys.exit(2)
ConfigError ==
  /\ pc = "main"
  /\ ~load_config(env).ok
  /\ stderr' = Append(stderr, "Configuration error")
  /\ exit_code' = 2
  /\ pc' = "exited"
  /\ UNCHANGED << env, args, sdk, config, checks, created, ctx, idx, in_progress, pending,
                  results, reporter, output, sdk_calls, names, by_name, url_env, api_url, clean_url, key_calls >>

\* the checks to run have been determined and the list is not empty
ChooseChecks ==
  /\ pc = "select"
  /\ SelectChecks(args) # << >>
  /\ checks' = SelectChecks(args)
  /\ pc' = "context"
  /\ UNCHANGED << env, args, sdk, config, created, ctx, idx, in_progress, pending,
                  results, reporter, output, stderr, sdk_calls, exit_code, names, by_name, url_env, api_url, clean_url, key_calls >>

\* if not checks: "No matching checks found", sys.exit(2)
NoMatchingChecks ==
  /\ pc = "select"
  /\ SelectChecks(args) = << >>
  /\ stderr' = Append(stderr, "No matching checks found")
  /\ exit_code' = 2
  /\ pc' = "exited"
  /\ UNCHANGED << env, args, sdk, config, checks, created, ctx, idx, in_progress, pending,
                  results, reporter, output, sdk_calls, names, by_name, url_env, api_url, clean_url, key_calls >>

\* context = CheckContext(...); reporter = Reporter(...)
CreateContext ==
  /\ pc = "context"
  /\ ctx' = CheckContext(config.api_key, config.test_customer_id,
                         args.no_cleanup \/ config.skip_cleanup, config.timeout)
  /\ created' = {"CheckContext", "Reporter"}
  /\ reporter' = << >>
  /\ pc' = "run_checks"
  /\ UNCHANGED << env, args, sdk, config, checks, idx, in_progress, pending,
                  results, output, stderr, sdk_calls, exit_code, names, by_name, url_env, api_url, clean_url, key_calls >>

\* run_checks: results = []; reporter.start()
RunChecksStart ==
  /\ pc = "run_checks"
  /\ results' = << >>
  /\ output' = output \o ReporterStart(args.json_output)
  /\ idx' = 1
  /\ pc' = "loop"
  /\ UNCHANGED << env, args, sdk, config, checks, created, ctx, in_progress, pending,
                  reporter, stderr, sdk_calls, exit_code, names, by_name, url_env, api_url, clean_url, key_calls >>

\* for check in checks: reporter.on_check_start(check)
OnCheckStart ==
  /\ pc = "loop"
  /\ idx <= Len(checks)
  /\ output' = output \o OnCheckStartOutput(args.json_output, checks[idx])
  /\ pc' = "wait_for"
  /\ UNCHANGED << env, args, sdk, config, checks, created, ctx, idx, in_progress, pending,
                  results, reporter, stderr, sdk_calls, exit_code, names, by_name, url_env, api_url, clean_url, key_calls >>

\* wait_for with a timeout that has already expired: the check never runs
TimeoutBeforeStart ==
  /\ pc = "wait_for"
  /\ TimesOutBeforeStart(ctx.timeout)
  /\ pending' = WithDuration(TimeoutResult(checks[idx], ctx.timeout),
                             Elapsed("fast", ctx.timeout))
  /\ pc' = "await"
  /\ UNCHANGED << env, args, sdk, config, checks, created, ctx, idx, in_progress,
                  results, reporter, output, stderr, sdk_calls, exit_code, names, by_name, url_env, api_url, clean_url, key_calls >>

\* wait_for starts the coroutine check.run(context)
StartCheck ==
  /\ pc = "wait_for"
  /\ ~TimesOutBeforeStart(ctx.timeout)
  /\ in_progress' = in_progress \cup {idx}
  /\ pc' = "await"
  /\ UNCHANGED << env, args, sdk, config, checks, created, ctx, idx, pending,
                  results, reporter, output, stderr, sdk_calls, exit_code, names, by_name, url_env, api_url, clean_url, key_calls >>

\* the check function runs to its return statement; it has no await, so the
\* timer of wait_for cannot interrupt it however long it takes
CheckReturns ==
  /\ pc # "blocked"
  /\ \E i \in in_progress :
       LET r == Run(checks[i], ctx) IN
       /\ ~r.raised
       /\ TimeOf(r.calls) # "hang"
       /\ ctx' = r.ctx
       /\ sdk_calls' = sdk_calls \o r.calls
       /\ pending' = WithDuration(r.result, Elapsed(TimeOf(r.calls), ctx.timeout))
       /\ in_progress' = in_progress \ {i}
  /\ UNCHANGED << pc, env, args, sdk, config, checks, created, idx,
                  results, reporter, output, stderr, exit_code, names, by_name, url_env, api_url, clean_url, key_calls >>

\* an except branch that records the failure and leaves the loop
CheckRaisesEndsLoop ==
  /\ pc # "blocked"
  /\ \E i \in in_progress :
       LET r == Run(checks[i], ctx) IN
       /\ r.raised
       /\ TimeOf(r.calls) # "hang"
       /\ ctx' = r.ctx
       /\ sdk_calls' = sdk_calls \o r.calls
       /\ pending' = ExceptionResult(checks[i], Elapsed(TimeOf(r.calls), ctx.timeout))
       /\ in_progress' = in_progress \ {i}
       /\ checks' = SubSeq(checks, 1, i)
  /\ UNCHANGED << pc, env, args, sdk, config, created, idx,
                  results, reporter, output, stderr, exit_code, names, by_name, url_env, api_url, clean_url, key_calls >>

\* an exception leaves the check function and reaches the except Exception
\* branch of run_checks
CheckRaises ==
  /\ pc # "blocked"
  /\ \E i \in in_progress :
       LET r == Run(checks[i], ctx) IN
       /\ r.raised
       /\ TimeOf(r.calls) # "hang"
       /\ ctx' = r.ctx
       /\ sdk_calls' = sdk_calls \o r.calls
       /\ pending' = ExceptionResult(checks[i], Elapsed(TimeOf(r.calls), ctx.timeout))
       /\ in_progress' = in_progress \ {i}
  /\ UNCHANGED << pc, env, args, sdk, config, checks, created, idx,
                  results, reporter, output, stderr, exit_code, names, by_name, url_env, api_url, clean_url, key_calls >>

\* the calls a check issues up to and including the first one that never returns
RECURSIVE UpToHang(_)
UpToHang(calls) ==
  IF calls = << >> THEN << >>
  ELSE IF Beh(Head(calls).method) = "hang" THEN << Head(calls) >>
  ELSE << Head(calls) >> \o UpToHang(Tail(calls))

\* a blocking SDK call never returns: the event loop thread is stuck in it
CheckHangs ==
  /\ pc # "blocked"
  /\ \E i \in in_progress :
       LET r == Run(checks[i], ctx) IN
       /\ TimeOf(r.calls) = "hang"
       /\ sdk_calls' = sdk_calls \o UpToHang(r.calls)
  /\ pc' = "blocked"
  /\ UNCHANGED << env, args, sdk, config, checks, created, ctx, idx, in_progress, pending,
                  results, reporter, output, stderr, exit_code, names, by_name, url_env, api_url, clean_url, key_calls >>

\* results.append(result); reporter.on_check_complete(result)
AppendResult ==
  /\ pc = "await"
  /\ Awaited(idx)
  /\ results' = Append(results, pending)
  /\ reporter' = reporter \o OnCheckCompleteEntries(args.json_output, pending)
  /\ output' = output \o OnCheckCompleteOutput(args.json_output, pending)
  /\ pending' = NoResult
  /\ idx' = idx + 1
  /\ pc' = "loop"
  /\ UNCHANGED << env, args, sdk, config, checks, created, ctx, in_progress,
                  stderr, sdk_calls, exit_code, names, by_name, url_env, api_url, clean_url, key_calls >>

\* the loop is over: reporter.finish(results); return results
Finish ==
  /\ pc = "loop"
  /\ idx > Len(checks)
  /\ output' = output \o FinishOutput(args.json_output, reporter, results)
  /\ pc' = "returned"
  /\ UNCHANGED << env, args, sdk, config, checks, created, ctx, idx, in_progress, pending,
                  results, reporter, stderr, sdk_calls, exit_code, names, by_name, url_env, api_url, clean_url, key_calls >>

\* sys.exit(1 if failures > 0 else 0)
Exit ==
  /\ pc = "returned"
  /\ exit_code' = ExitCode(results)
  /\ pc' = "exited"
  /\ UNCHANGED << env, args, sdk, config, checks, created, ctx, idx, in_progress, pending,
                  results, reporter, output, stderr, sdk_calls, names, by_name, url_env, api_url, clean_url, key_calls >>

Next ==
  \/ LoadConfig
  \/ ConfigError
  \/ ChooseChecks
  \/ NoMatchingChecks
  \/ CreateContext
  \/ RunChecksStart
  \/ OnCheckStart
  \/ TimeoutBeforeStart
  \/ StartCheck
  \/ CheckReturns
  \/ CheckRaises
  \/ CheckHangs
  \/ AppendResult
  \/ Finish
  \/ Exit

Spec == Init /\ [][Next]_vars

(***************************************************************************)
(* get_checks_by_name called directly on a list of names.                  *)
(***************************************************************************)
MaxNames == 2

NameInputs ==
  { << "c","l","e","a","n","u","p" >>,
    << "c","u","s","t","o","m","e","r" >>,
    << " ","C","h","a","r","g","e","_","G","e","t"," " >>,
    << "W","E","B","H","O","O","K","\n" >>,
    << "r","u","n" >>,
    << "n","o","p","e" >>,
    << "_","g","e","t" >>,
    << "\t" >> }

InitNames ==
  /\ pc = "names"
  /\ env = DefaultEnv
  /\ args = Args(NoOnly, FALSE, FALSE, FALSE)
  /\ sdk = Nominal
  /\ config = NoConfig
  /\ checks = << >>
  /\ created = {}
  /\ ctx = NoContext
  /\ idx = 0
  /\ in_progress = {}
  /\ pending = NoResult
  /\ results = << >>
  /\ reporter = << >>
  /\ output = << >>
  /\ stderr = << >>
  /\ sdk_calls = << >>
  /\ exit_code = None
  /\ names = << >>
  /\ by_name = << >>
  /\ url_env = Unset(<< >>)
  /\ api_url = << >>
  /\ clean_url = << >>
  /\ key_calls = << >>

\* the caller builds the list of names
AddName ==
  /\ pc = "names"
  /\ Len(names) < MaxNames
  /\ \E n \in NameInputs : names' = Append(names, n)
  /\ UNCHANGED << pc, env, args, sdk, config, checks, created, ctx, idx, in_progress, pending,
                  results, reporter, output, stderr, sdk_calls, exit_code, by_name, url_env, api_url, clean_url, key_calls >>

\* by_name = get_checks_by_name(names)
CallGetChecksByName ==
  /\ pc = "names"
  /\ by_name' = get_checks_by_name(names)
  /\ pc' = "named"
  /\ UNCHANGED << env, args, sdk, config, checks, created, ctx, idx, in_progress, pending,
                  results, reporter, output, stderr, sdk_calls, exit_code, names, url_env, api_url, clean_url, key_calls >>

NextNames == AddName \/ CallGetChecksByName

SpecNames == InitNames /\ [][NextNames]_vars

(***************************************************************************)
(* load_config and create_client applied to a DRIP_API_URL value.          *)
(***************************************************************************)
MaxUrlLen == 4

UrlChars == { "a", "/", "v", "1" }

UrlInputs ==
  { Unset(<< >>) } \cup
  { Val(u) : u \in UNION { [1..n -> UrlChars] : n \in 0..MaxUrlLen } }

InitUrl ==
  /\ pc = "url"
  /\ env = DefaultEnv
  /\ args = Args(NoOnly, FALSE, FALSE, FALSE)
  /\ sdk = Nominal
  /\ config = NoConfig
  /\ checks = << >>
  /\ created = {}
  /\ ctx = NoContext
  /\ idx = 0
  /\ in_progress = {}
  /\ pending = NoResult
  /\ results = << >>
  /\ reporter = << >>
  /\ output = << >>
  /\ stderr = << >>
  /\ sdk_calls = << >>
  /\ exit_code = None
  /\ names = << >>
  /\ by_name = << >>
  /\ url_env \in UrlInputs
  /\ api_url = << >>
  /\ clean_url = << >>
  /\ key_calls = << >>

\* config = load_config(): config.api_url
LoadConfigUrl ==
  /\ pc = "url"
  /\ api_url' = ApiUrl(url_env)
  /\ pc' = "url_loaded"
  /\ UNCHANGED << env, args, sdk, config, checks, created, ctx, idx, in_progress, pending,
                  results, reporter, output, stderr, sdk_calls, exit_code, names, by_name,
                  url_env, clean_url, key_calls >>

\* a check calls create_client(ctx.api_key, ctx.api_url)
CreateClientUrl ==
  /\ pc = "url_loaded"
  /\ clean_url' = CleanUrl(api_url)
  /\ pc' = "url_client"
  /\ UNCHANGED << env, args, sdk, config, checks, created, ctx, idx, in_progress, pending,
                  results, reporter, output, stderr, sdk_calls, exit_code, names, by_name,
                  url_env, api_url, key_calls >>

NextUrl == LoadConfigUrl \/ CreateClientUrl

SpecUrl == InitUrl /\ [][NextUrl]_vars

(***************************************************************************)
(* Direct calls of drip_client.generate_idempotency_key.                   *)
(***************************************************************************)
MaxKeyCalls == 2

\* values uuid.uuid4() may draw
MaxUuid == 3

\* argument lists: the three calls of the idempotency_key_gen check, and
\* calls that pass the prefix only or nothing
KeyArgInputs ==
  { << << "t", "e", "s", "t" >>, << "c", "u", "s", "t", "_", "1", "2", "3" >>, << "1" >> >>,
    << << "t", "e", "s", "t" >>, << "c", "u", "s", "t", "_", "1", "2", "3" >>, << "2" >> >>,
    << << "t", "e", "s", "t" >> >>, << << "i", "d", "e", "m" >> >>, << >> }

\* the idempotency key of each check that sends one: the prefix it passes to
\* generate_idempotency_key and the number of requests it sends with the key
charge_create_key ==
  [check |-> "charge_create", prefix |-> << "c", "h", "a", "r", "g", "e" >>, sends |-> 1]

stream_meter_add_key ==
  [check |-> "stream_meter_add", prefix |-> << "s", "t", "r", "e", "a", "m" >>, sends |-> 1]

idempotency_key ==
  [check |-> "idempotency", prefix |-> << "i", "d", "e", "m", "_", "t", "e", "s", "t" >>, sends |-> 2]

wrap_api_call_basic_key ==
  [check |-> "wrap_api_call_basic", prefix |-> << "w", "r", "a", "p" >>, sends |-> 1]

wrap_api_call_idempotency_key ==
  [check |-> "wrap_api_call_idempotency", prefix |-> << "w", "r", "a", "p", "_", "i", "d", "e", "m" >>, sends |-> 2]

KeyUses ==
  { charge_create_key, stream_meter_add_key, idempotency_key,
    wrap_api_call_basic_key, wrap_api_call_idempotency_key }

InitKeys ==
  /\ pc \in {"keys", "run_keys"}
  /\ env = DefaultEnv
  /\ args = Args(NoOnly, FALSE, FALSE, FALSE)
  /\ sdk = Nominal
  /\ config = NoConfig
  /\ checks = << >>
  /\ created = {}
  /\ ctx = NoContext
  /\ idx = 0
  /\ in_progress = {}
  /\ pending = NoResult
  /\ results = << >>
  /\ reporter = << >>
  /\ output = << >>
  /\ stderr = << >>
  /\ sdk_calls = << >>
  /\ exit_code = None
  /\ names = << >>
  /\ by_name = << >>
  /\ url_env = Unset(<< >>)
  /\ api_url = << >>
  /\ clean_url = << >>
  /\ key_calls = << >>

\* key = generate_idempotency_key(...), called directly
CallGenerateKey ==
  /\ pc = "keys"
  /\ Len(key_calls) < MaxKeyCalls
  /\ \E a \in KeyArgInputs, u \in 1..MaxUuid :
       key_calls' = Append(key_calls,
                           [by |-> None, sends |-> 0, args |-> a,
                            ret |-> generate_idempotency_key(a, u)])
  /\ UNCHANGED << pc, env, args, sdk, config, checks, created, ctx, idx, in_progress,
                  pending, results, reporter, output, stderr, sdk_calls, exit_code,
                  names, by_name, url_env, api_url, clean_url >>

\* a check of the run, run at most once and in any order, generates its key
\* and sends its requests with it
CheckGeneratesKey ==
  /\ pc = "run_keys"
  /\ \E use \in KeyUses, u \in 1..MaxUuid :
       /\ \A k \in 1..Len(key_calls) : key_calls[k].by # use.check
       /\ key_calls' = Append(key_calls,
                              [by |-> use.check, sends |-> use.sends,
                               args |-> << use.prefix >>,
                               ret |-> generate_idempotency_key(<< use.prefix >>, u)])
  /\ UNCHANGED << pc, env, args, sdk, config, checks, created, ctx, idx, in_progress,
                  pending, results, reporter, output, stderr, sdk_calls, exit_code,
                  names, by_name, url_env, api_url, clean_url >>

NextKeys == CallGenerateKey \/ CheckGeneratesKey

SpecKeys == InitKeys /\ [][NextKeys]_vars

(***************************************************************************)
(* Properties.                                                             *)
(***************************************************************************)
AllPassed(rs) == \A i \in 1..Len(rs) : rs[i].success
SomeFailed(rs) == \E i \in 1..Len(rs) : ~rs[i].success

\* the process has run its checks and exited
RanAndExited == pc = "exited" /\ created # {}

\* C1: after a run in which configuration loaded and at least one check was
\* selected, the exit code is 0 exactly when every result has success = TRUE
\* and 1 exactly when some result has success = FALSE, whatever produced it.
C1_ExitCodeReflectsResults ==
  RanAndExited =>
    /\ checks # << >>
    /\ exit_code \in {0, 1}
    /\ exit_code = 0 <=> AllPassed(results)
    /\ exit_code = 1 <=> SomeFailed(results)

C1_Witness ==
  /\ RanAndExited
  /\ exit_code = 1
  /\ Cardinality({i \in 1..Len(results) : ~results[i].success}) = 1
  /\ \E i \in 1..Len(results) : results[i].message = "Check failed with exception"

\* DRIP_API_KEY unset or empty
NoApiKey == ~env.DRIP_API_KEY.set \/ env.DRIP_API_KEY.value = ""

\* C2: with DRIP_API_KEY unset or empty the process goes from main() straight
\* to exit code 2: no CheckContext, no Reporter, no check, no SDK call and no
\* reporter output.
C2_NoApiKeyExitsTwo ==
  NoApiKey =>
    /\ pc \in {"main", "exited"}
    /\ pc = "exited" => exit_code = 2
    /\ created = {}
    /\ checks = << >> /\ in_progress = {} /\ results = << >>
    /\ sdk_calls = << >>
    /\ output = << >> /\ reporter = << >>

C2_Witness ==
  /\ env.DRIP_API_KEY.set /\ env.DRIP_API_KEY.value = ""
  /\ args.quick
  /\ pc = "exited" /\ exit_code = 2
  /\ stderr = << "Configuration error" >>

\* number of results the reporter has been told about
Reported ==
  IF args.json_output THEN Len(reporter)
  ELSE Cardinality({i \in 1..Len(output) : output[i].kind = "line"})

\* C3: checks run strictly one at a time in list order: at most one check is
\* in progress, and while check i is in progress the results of exactly the
\* checks 1..i-1 have been appended and reported.
C3_OneCheckAtATime ==
  /\ Cardinality(in_progress) <= 1
  /\ \A i \in in_progress :
       /\ i = idx
       /\ Len(results) = i - 1
       /\ Reported = i - 1
       /\ pending = NoResult
  /\ Len(results) > 0 => \A i \in 1..Len(results) : results[i] # NoResult

C3_Witness ==
  /\ in_progress = {3}
  /\ Len(results) = 2
  /\ Reported = 2

\* C4: a check whose run takes longer than context.timeout is reported as a
\* failed, timed-out result.
C4_SlowCheckTimesOut ==
  \A i \in 1..Len(results) :
    results[i].duration > ctx.timeout =>
      /\ ~results[i].success
      /\ results[i].message = "Check timed out"

\* C5: run_checks returns one result per input check, in input order, each
\* carrying the name of its check.
C5_OneResultPerCheck ==
  /\ pc \in {"returned", "exited"} /\ created # {} =>
       /\ Len(results) = Len(checks)
       /\ \A i \in 1..Len(checks) : results[i].name = checks[i].name
  /\ pc \in {"loop", "wait_for", "await", "blocked"} =>
       /\ Len(results) = idx - 1
       /\ \A i \in 1..Len(results) : results[i].name = checks[i].name

C5_Witness ==
  /\ pc = "returned"
  /\ Len(results) = NumChecks
  /\ \E i \in 1..Len(results) : results[i].message = "Check failed with exception"
  /\ \E i \in 1..Len(results) : results[i].message = "No customer ID available"
  /\ \E i \in 1..Len(results) : results[i].success

\* C6: when charge_create has succeeded earlier in the run, charge_get does
\* not fail for lack of a charge ID: it reports pass or skip.
C6_ChargeGetReusesChargeId ==
  \A i \in 1..Len(results) :
    /\ results[i].name = "charge_get"
    /\ \E j \in 1..(i - 1) : results[j].name = "charge_create" /\ results[j].success
    => \/ results[i].success
       \/ results[i].message = "Failed to get charge"

\* C7: whatever the SDK does and whatever the context holds, the check that
\* is running returns a CheckResult: no exception leaves it.
C7_NoCheckRaises ==
  \A i \in in_progress : ~Run(checks[i], ctx).raised

\* C8: no other check runs after customer_cleanup.
C8_CleanupRunsLast ==
  \A i \in 1..Len(results) :
    results[i].name = "customer_cleanup" =>
      /\ i = Len(results)
      /\ in_progress = {}
      /\ pc \in {"loop", "returned", "exited"} /\ idx > Len(checks)

QuickNames ==
  << "connectivity", "authentication", "webhook_sign", "webhook_verify",
     "idempotency_key_gen" >>

NamesOf(cs) == [i \in 1..Len(cs) |-> cs[i].name]

\* C9: with --quick the checks run are exactly the five quick checks, in
\* all_checks order, whether or not --only is given as well.
C9_QuickRunsQuickChecks ==
  args.quick =>
    /\ pc \notin {"main", "select", "names", "named"} /\ created # {} =>
         /\ NamesOf(checks) = QuickNames
         /\ \A i \in in_progress : i \in 1..5
    /\ RanAndExited => NamesOf(results) = QuickNames
    /\ \A k \in 1..NumChecks :
         all_checks[k].quick <=> \E q \in 1..5 : QuickNames[q] = all_checks[k].name

C9_Witness ==
  /\ args.quick /\ args.only.set /\ args.only.value # << >>
  /\ RanAndExited
  /\ Len(results) = 5

\* position of a check in all_checks
IndexOf(check) == CHOOSE k \in 1..NumChecks : all_checks[k] = check

\* whether the lower-cased name of a check contains the name, stripped and lower-cased
Matches(check, name) == Contains(Lower(Chars[check.name]), Lower(Strip(name)))

\* position in names of the first name a check matches
FirstMatch(check) == CHOOSE j \in 1..Len(names) :
  Matches(check, names[j]) /\ \A h \in 1..(j - 1) : ~Matches(check, names[h])

\* C10: get_checks_by_name returns each check at most once, returns a check
\* exactly when its lower-cased name contains one of the names (stripped and
\* lower-cased), and orders the result by the position of the first matching
\* name, then by all_checks order.
C10_ByNameMatchesAndOrders ==
  pc = "named" =>
    /\ \A p, q \in 1..Len(by_name) : p # q => by_name[p] # by_name[q]
    /\ \A k \in 1..NumChecks :
         InSeq(all_checks[k], by_name) <=>
           \E j \in 1..Len(names) : Matches(all_checks[k], names[j])
    /\ \A p, q \in 1..Len(by_name) :
         p < q =>
           \/ FirstMatch(by_name[p]) < FirstMatch(by_name[q])
           \/ /\ FirstMatch(by_name[p]) = FirstMatch(by_name[q])
              /\ IndexOf(by_name[p]) < IndexOf(by_name[q])

C10_Witness ==
  /\ pc = "named"
  /\ Len(names) = 2
  /\ \E p, q \in 1..Len(by_name) : p < q /\ IndexOf(by_name[p]) > IndexOf(by_name[q])
  /\ \E p \in 1..Len(by_name) : Matches(by_name[p], names[1]) /\ Matches(by_name[p], names[2])

\* --only given with a non-empty value, --quick not given
OnlyGiven == ~args.quick /\ args.only.set /\ args.only.value # << >>

\* the names the user gave: the --only value cut at its commas
GivenNames == Split(args.only.value, ",")

\* whether a check name contains one of the given names
MatchesGiven(check) == \E j \in 1..Len(GivenNames) : Matches(check, GivenNames[j])

\* C11: under --only without --quick, if no check name contains any of the
\* given names the CLI exits with code 2 having run no check; and every
\* check the CLI runs under --only matches at least one given name.
C11_OnlyNoMatchExitsTwo ==
  OnlyGiven /\ pc \notin {"main", "select"} /\ load_config(env).ok =>
    /\ (\A k \in 1..NumChecks : ~MatchesGiven(all_checks[k])) =>
         /\ pc = "exited" /\ exit_code = 2
         /\ created = {} /\ checks = << >> /\ in_progress = {}
         /\ results = << >> /\ sdk_calls = << >> /\ output = << >>
    /\ \A i \in 1..Len(checks) : MatchesGiven(checks[i])
    /\ \A i \in in_progress : MatchesGiven(checks[i])
    /\ \A i \in 1..Len(results) :
         \E k \in 1..NumChecks :
           all_checks[k].name = results[i].name /\ MatchesGiven(all_checks[k])

C11_Witness ==
  /\ OnlyGiven
  /\ \A k \in 1..NumChecks : ~MatchesGiven(all_checks[k])
  /\ pc = "exited" /\ exit_code = 2
  /\ stderr = << "No matching checks found" >>

C11_WitnessRuns ==
  /\ OnlyGiven
  /\ RanAndExited
  /\ Len(results) \in 1..(NumChecks - 1)

DeleteMethods == {"delete_customer", "delete_webhook"}

\* the webhook_delete check, whose purpose is to exercise delete_webhook, has
\* started
DeleteUnderTest ==
  \/ \E i \in 1..Len(results) : results[i].name = "webhook_delete"
  \/ pending.name = "webhook_delete"
  \/ \E i \in in_progress : checks[i].name = "webhook_delete"
  \/ pc \in {"wait_for", "await", "blocked"} /\ checks[idx].name = "webhook_delete"

\* C12: with skip_cleanup true no check deletes, as cleanup, a resource the
\* run created (apart from the webhook_delete check exercising delete_webhook
\* there is no delete_customer or delete_webhook call), and customer_cleanup
\* reports success without calling the SDK.
C12_SkipCleanupDeletesNothing ==
  ctx.skip_cleanup /\ created # {} =>
    /\ ~DeleteUnderTest =>
         \A i \in 1..Len(sdk_calls) : sdk_calls[i].method \notin DeleteMethods
    /\ \A i \in 1..Len(sdk_calls) : sdk_calls[i].method # "delete_customer"
    /\ \A i \in 1..Len(results) :
         results[i].name = "customer_cleanup" =>
           /\ results[i].success
           /\ results[i].message = "Cleanup skipped (--no-cleanup flag)"

\* C13: for every DRIP_API_URL value the api_url returned by load_config
\* ends with exactly one /v1 segment (so with no trailing slash and never
\* with /v1/v1), and normalizing it again leaves it unchanged.
C13_ApiUrlEndsWithOneV1 ==
  pc \in {"url_loaded", "url_client"} =>
    /\ EndsWith(api_url, V1)
    /\ ~EndsWith(api_url, V1 \o V1)
    /\ ApiUrl(Val(api_url)) = api_url

\* a call passing a prefix, a customer ID and a sequence
ThreeArgCall(call) == Len(call.args) = 3

\* C14: the key generator called with a prefix, a customer ID and a sequence
\* returns a key, returns equal keys for equal arguments, and returns
\* different keys when only the sequence differs.
C14_KeysDeterministic ==
  \A i, j \in 1..Len(key_calls) :
    ThreeArgCall(key_calls[i]) /\ ThreeArgCall(key_calls[j]) =>
      /\ ~key_calls[i].ret.raised
      /\ key_calls[i].args = key_calls[j].args =>
           key_calls[i].ret.key = key_calls[j].ret.key
      /\ /\ key_calls[i].args[1] = key_calls[j].args[1]
         /\ key_calls[i].args[2] = key_calls[j].args[2]
         /\ key_calls[i].args[3] # key_calls[j].args[3]
         => key_calls[i].ret.key # key_calls[j].ret.key

\* C15: the idempotency check reports success only if its two charge calls
\* returned the same charge ID, and reports failure whenever the two
\* returned charge IDs differ.
C15_IdempotencyNeedsSameChargeId ==
  \A i \in 1..Len(results) :
    results[i].name = "idempotency" =>
      /\ results[i].success =>
           /\ Outcome("charge") = "return"
           /\ ChargeResponse(1).id = ChargeResponse(2).id
      /\ Outcome("charge") = "return" /\ ChargeResponse(1).id # ChargeResponse(2).id
           => ~results[i].success

\* C16: in --json mode the reporter prints nothing before finish; finish
\* prints exactly one JSON document whose results array has one entry per
\* executed check, in execution order, and whose summary has
\* total = passed + failed = number of executed checks and passed = number
\* of results with success = TRUE.
C16_JsonReportMatchesRun ==
  args.json_output =>
    /\ pc \notin {"returned", "exited"} => output = << >>
    /\ pc \in {"loop", "wait_for", "await", "blocked"} =>
         reporter = SubSeq(results, 1, Len(reporter))
    /\ pc \in {"returned", "exited"} /\ created # {} =>
         /\ Len(output) = 1
         /\ output[1].kind = "json"
         /\ Len(output[1].results) = Len(checks)
         /\ \A i \in 1..Len(checks) :
              /\ output[1].results[i].name = checks[i].name
              /\ output[1].results[i] = results[i]
         /\ output[1].summary.total = Len(checks)
         /\ output[1].summary.total =
              output[1].summary.passed + output[1].summary.failed
         /\ output[1].summary.passed =
              Cardinality({i \in 1..Len(results) : results[i].success})

C16_Witness ==
  /\ args.json_output
  /\ pc = "exited"
  /\ Len(output) = 1
  /\ output[1].summary.passed > 0
  /\ output[1].summary.failed > 0
  /\ Len(output[1].results) = NumChecks

\* the summaries reporter.finish has printed
FinishOutputs == SelectSeq(output, LAMBDA o : o.kind \in {"summary", "json"})

\* the running check raises instead of returning
RunningCheckRaises ==
  /\ pc = "await"
  /\ in_progress = {idx}
  /\ Run(checks[idx], ctx).raised
  /\ TimeOf(Run(checks[idx], ctx).calls) # "hang"

\* what the run records for a check that raised, and what it does afterwards
ExceptionRecorded ==
  /\ \A i \in 1..Len(results) :
       results[i].message = "Check failed with exception" =>
         results[i].name = checks[i].name /\ ~results[i].success
  /\ pc \notin {"returned", "exited"} => FinishOutputs = << >>
  /\ pc \in {"returned", "exited"} /\ created # {} =>
       /\ Len(results) = Len(SelectChecks(args))
       /\ Len(FinishOutputs) = 1
       /\ FinishOutputs[1].summary.total = Len(results)

\* C21: when the running check raises an exception, run_checks records a
\* result with that check's name, success = FALSE and the message 'Check
\* failed with exception'; the loop goes on with the remaining checks and
\* reporter.finish is called once, with the complete result list.
C21_ExceptionBecomesFailedResult ==
  /\ []ExceptionRecorded
  /\ [][RunningCheckRaises /\ in_progress' = {} =>
          /\ pending'.name = checks[idx].name
          /\ ~pending'.success
          /\ pending'.message = "Check failed with exception"
          /\ pc' = "await" /\ idx' = idx /\ checks' = checks]_vars
  /\ [][pending.message = "Check failed with exception" /\ results' # results =>
          /\ results' = Append(results, pending)
          /\ idx' = idx + 1
          /\ pc' = "loop"]_vars

C21_Witness ==
  /\ pc = "exited"
  /\ Len(results) = NumChecks
  /\ results[8].message = "Check failed with exception"
  /\ results[9].name = "charge_list_filtered"
  /\ Len(FinishOutputs) = 1

\* C22: when list_charges returns a non-empty collection, charge_list_filtered
\* reports success and the context then holds a listed charge ID; likewise
\* workflow_list and the listed workflow ID, whichever checks ran before.
C22_ListChecksStoreFirstId ==
  \A i \in 1..Len(results) :
    /\ /\ results[i].name = "charge_list_filtered"
       /\ results[i].message # "No customer ID available"
       /\ Outcome("list_charges") = "return"
       /\ Beh("list_charges") # "empty"
       => results[i].success /\ ctx.charge_id # Absent /\ Truthy(ctx.charge_id)
    /\ /\ results[i].name = "workflow_list"
       /\ Outcome("list_workflows") = "return"
       /\ Beh("list_workflows") # "empty"
       => results[i].success /\ ctx.workflow_id # Absent /\ Truthy(ctx.workflow_id)

\* the step in which the run_create check finishes
RunCreateFinishes ==
  /\ pc = "await"
  /\ in_progress = {idx}
  /\ checks[idx].name = "run_create"
  /\ in_progress' = {}

\* the SDK methods the finishing check has called, in call order
NewMethods ==
  [k \in 1..(Len(sdk_calls') - Len(sdk_calls)) |-> sdk_calls'[Len(sdk_calls) + k].method]

\* its calls after the record_run attempt
AfterRecordRun ==
  IF NewMethods # << >> /\ NewMethods[1] = "record_run" THEN Tail(NewMethods)
  ELSE NewMethods

FallbackMethods == << "create_workflow", "start_run", "emit_event", "end_run" >>

FallbackPos(m) == CHOOSE k \in 1..Len(FallbackMethods) : FallbackMethods[k] = m

\* ms lists fallback methods only, each at most once, in the fallback order
InFallbackOrder(ms) ==
  /\ \A k \in 1..Len(ms) : \E q \in 1..Len(FallbackMethods) : FallbackMethods[q] = ms[k]
  /\ \A j, k \in 1..Len(ms) : j < k => FallbackPos(ms[j]) < FallbackPos(ms[k])

Called(m) == \E k \in 1..Len(NewMethods) : NewMethods[k] = m

\* record_run comes first when the SDK offers it; the fallback calls are made
\* in order and only if record_run is absent or raised a 404
RecordRunFirstThenFallback ==
  /\ hasattr("record_run") /\ NewMethods # << >> => NewMethods[1] = "record_run"
  /\ ~Called("record_run") => NewMethods = << >> \/ ~hasattr("record_run")
  /\ AfterRecordRun # << >> =>
       /\ ~hasattr("record_run") \/ Outcome("record_run") = "404"
       /\ InFallbackOrder(AfterRecordRun)
  /\ pending'.message # "Created and completed run" => ctx'.run_id = None
  /\ ctx'.run_id # None => pending'.success

C24_WrapIdempotencyNeedsReplay ==
  \A i \in 1..Len(results) :
    results[i].name = "wrap_api_call_idempotency" =>
      /\ results[i].success /\ results[i].message # "wrap_api_call not available in SDK" =>
           \/ WrapResponse(2).is_duplicate
           \/ WrapResponse(1).id = WrapResponse(2).id
      /\ /\ Outcome("wrap_api_call") = "return"
         /\ results[i].message # "No customer ID available"
         /\ ~WrapResponse(2).is_duplicate
         /\ WrapResponse(1).id # WrapResponse(2).id
         => ~results[i].success

\* the requests of the run that carry an idempotency key: the sending check
\* and the key, one entry per request
KeyedRequests ==
  { [by |-> key_calls[r[1]].by, key |-> key_calls[r[1]].ret.key, n |-> r[2]] :
      r \in { q \in (1..Len(key_calls)) \X (1..2) :
                /\ key_calls[q[1]].by # None
                /\ q[2] <= key_calls[q[1]].sends } }

ReplayingChecks == { "idempotency", "wrap_api_call_idempotency" }

\* C25: within one run every check's generate_idempotency_key call returns
\* a key, no two requests sent by different checks carry the same key, and
\* two requests carry the same key only inside a check that replays it.
C25_KeysUniqueAcrossChecks ==
  /\ \A k \in 1..Len(key_calls) :
       key_calls[k].by # None =>
         /\ ~key_calls[k].ret.raised
         /\ key_calls[k].ret.key # None
  /\ \A r1, r2 \in KeyedRequests :
       r1 # r2 /\ r1.key = r2.key => r1.by = r2.by /\ r1.by \in ReplayingChecks

C25_Witness ==
  /\ pc = "run_keys"
  /\ Len(key_calls) = 5
  /\ Cardinality(KeyedRequests) = 7
  /\ key_calls[1].by = "wrap_api_call_idempotency"
  /\ key_calls[2].by = "wrap_api_call_basic"
  /\ key_calls[1].ret.key[Len(key_calls[1].ret.key)] = key_calls[2].ret.key[Len(key_calls[2].ret.key)]

\* the positions of the SDK calls of method m made so far in the run
CallsOf(m) == { i \in 1..Len(sdk_calls) : sdk_calls[i].method = m }

\* customer_create has reported that it created a customer
CustomerCreated ==
  \/ \E i \in 1..Len(results) :
       results[i].name = "customer_create" /\ results[i].message = "Created customer"
  \/ pending.name = "customer_create" /\ pending.message = "Created customer"

\* C26: delete_customer is called at most once per run and only with the ID
\* that customer_create stored in created_customer_id after its
\* create_customer call of this run returned; when TEST_CUSTOMER_ID is
\* configured there is no create_customer call, created_customer_id stays
\* unset and delete_customer is never called.
C26_DeletesOnlyCreatedCustomer ==
  /\ Cardinality(CallsOf("delete_customer")) <= 1
  /\ \A d \in CallsOf("delete_customer") :
       /\ Truthy(ctx.created_customer_id)
       /\ sdk_calls[d].arg = ctx.created_customer_id
       /\ sdk_calls[d].arg # ctx.test_customer_id
       /\ CustomerCreated
       /\ \E k \in CallsOf("create_customer") : k < d
       /\ Outcome("create_customer") = "return"
  /\ created # {} /\ Truthy(ctx.test_customer_id) =>
       /\ CallsOf("create_customer") = {}
       /\ CallsOf("delete_customer") = {}
       /\ ctx.created_customer_id = None

C26_Witness ==
  /\ RanAndExited
  /\ ~Truthy(ctx.test_customer_id)
  /\ CallsOf("delete_customer") # {}
  /\ \E i \in 1..Len(results) :
       results[i].name = "customer_cleanup" /\ results[i].message = "Deleted customer"

\* a finished run with TEST_CUSTOMER_ID configured and cleanup enabled
C26_SeededRunCleansUp ==
  /\ RanAndExited
  /\ Truthy(ctx.test_customer_id)
  /\ ~ctx.skip_cleanup
  /\ \E i \in 1..Len(results) :
       results[i].name = "customer_cleanup" /\ results[i].message = "No customer to clean up"
  /\ \E i \in 1..Len(results) :
       results[i].name = "customer_create" /\ results[i].message = "Using seeded customer"

====
